---- MODULE Spec2Model ----
(***************************************************************************)
(* Model of the genui server: the POST /api/chat handler, the five         *)
(* pipelines it orchestrates and the chat client (chat.ts) they share.     *)
(*                                                                         *)
(* JavaScript values are tagged records, so that property access on a      *)
(* missing key, truthiness and object spread behave as they do in the      *)
(* source.  One step of the model is one run of JavaScript between two     *)
(* awaits (run to completion); the outcome of every external call (LLM     *)
(* endpoint, Bing, Google Fonts, image hosts, sharp) is chosen             *)
(* nondeterministically when the call completes.                           *)
(***************************************************************************)
EXTENDS Integers, Sequences, FiniteSets, TLC

(***************************************************************************)
(* Bounds of the model.                                                    *)
(***************************************************************************)
\* Largest number of messages in a request body.
MaxMessages == 2
\* Largest number of image results on a scraped Bing page.
MaxFound == 2
\* Largest number of characters of a font name given to buildGoogleFontsUrl.
MaxNameLen == 3
\* Largest number of @font-face blocks in a CSS text given to parseGoogleFontCSS.
MaxFaces == 3
\* Largest number of a.iusc anchors on a results page given to scrapeBingImages
\* on its own, and the largest number of results it is asked for.
MaxAnchors == 3
MaxRequested == 2
\* Largest number of messages the user submits in the browser client.
MaxSubmits == 2

(***************************************************************************)
(* JavaScript / JSON values.                                               *)
(***************************************************************************)
Undef == [t |-> "undefined"]
Null == [t |-> "null"]
Str(s) == [t |-> "string", s |-> s]
Num(n) == [t |-> "number", n |-> n]
Bool(b) == [t |-> "boolean", b |-> b]
Obj(f) == [t |-> "object", o |-> f]
Arr(a) == [t |-> "array", a |-> a]
\* The text JSON.stringify produces for v.  A string that is a JSON text is
\* represented by the value it denotes; every Str(s) used in this model is a
\* text that is not valid JSON.
JsonText(v) == [t |-> "string", json |-> v]
\* The empty object {}.
EmptyObj == Obj(<<>>)

IsString(v) == v.t = "string"
\* typeof v === "object" (true of arrays and of null).
TypeofObject(v) == v.t \in {"object", "array", "null"}
\* !v
Falsy(v) ==
  \/ v.t \in {"undefined", "null"}
  \/ v.t = "string" /\ "s" \in DOMAIN v /\ v.s = ""
  \/ v.t = "boolean" /\ ~v.b
  \/ v.t = "number" /\ v.n = 0
\* key in v, for an object or array v.
HasKey(v, k) == v.t = "object" /\ k \in DOMAIN v.o
\* v[k] on a value that is not undefined or null: undefined when absent.
Get(v, k) == IF HasKey(v, k) THEN v.o[k] ELSE Undef
\* v?.[k]
OptGet(v, k) == IF v.t \in {"undefined", "null"} THEN Undef ELSE Get(v, k)
\* v?.[i] for an array index i (0-based).
OptIdx(v, i) == IF v.t = "array" /\ i + 1 \in DOMAIN v.a THEN v.a[i + 1] ELSE Undef
\* v.k throws a TypeError when v is undefined or null.
Throws(v) == v.t \in {"undefined", "null"}
\* The own enumerable properties that {...v} copies: none for undefined,
\* null and other primitives.
OwnProps(v) == IF v.t = "object" THEN v.o ELSE <<>>
\* { ...a, ...b } as functions from keys to values: later keys win.
Spread(f, g) ==
  [k \in (DOMAIN f) \cup (DOMAIN g) |-> IF k \in DOMAIN g THEN g[k] ELSE f[k]]
\* v?.toString?.() ?? ""  for the values of this model.
ToStringOrEmpty(v) ==
  IF v.t \in {"undefined", "null"} THEN Str("") ELSE
  IF v.t = "string" THEN v ELSE Str("[object]")
\* JSON.parse: [ok |-> TRUE, v |-> value] or [ok |-> FALSE] for a SyntaxError.
\* A text that is not a string is converted with String() first: a number or
\* a boolean then parses to itself, an object ("[object Object]") does not.
JSONParse(text) ==
  IF text.t = "string" /\ "json" \in DOMAIN text
  THEN [ok |-> TRUE, v |-> text.json]
  ELSE IF text.t \in {"number", "boolean", "null"}
  THEN [ok |-> TRUE, v |-> text]
  ELSE [ok |-> FALSE]

(***************************************************************************)
(* utils.ts: Result.                                                       *)
(***************************************************************************)
ok(value) == Obj([ok |-> Bool(TRUE), value |-> value])
err(error) == Obj([ok |-> Bool(FALSE), error |-> error])
AppError(type) == Obj([type |-> Str(type)])
AppErrorDetail(type, detail) == Obj([type |-> Str(type), detail |-> detail])
\* r.ok as a condition.
IsOk(r) == ~Falsy(Get(r, "ok"))

(***************************************************************************)
(* chat.ts: parseChatMessages.                                             *)
(***************************************************************************)
RECURSIVE traversePath(_, _)
traversePath(current, path) ==
  IF path = <<>> THEN current
  ELSE IF ~Falsy(current) /\ TypeofObject(current) /\ HasKey(current, Head(path))
       THEN traversePath(Get(current, Head(path)), Tail(path))
       ELSE Undef

InvalidChatMessages(detail) == err(AppErrorDetail("InvalidChatMessages", Str(detail)))

\* Validation of the content items of one message: the index of the first
\* invalid item and why, or 0 when all are valid.
FirstBadItem(items) ==
  LET bad == {j \in DOMAIN items :
                \/ ~TypeofObject(items[j]) \/ items[j] = Null
                \/ ~IsString(Get(items[j], "type"))}
  IN IF bad = {} THEN 0 ELSE CHOOSE j \in bad : \A i \in bad : j <= i

\* The body of the loop over messagesArray for one message: an error Result
\* or ok(parsed message).
ParseOneMessage(msg, i) ==
  IF ~TypeofObject(msg) \/ msg = Null
  THEN InvalidChatMessages("Message at index " \o ToString(i) \o " is not a valid object.")
  ELSE IF ~IsString(Get(msg, "role"))
  THEN InvalidChatMessages("Message at index " \o ToString(i) \o " is missing a valid 'role' property.")
  ELSE IF ~HasKey(msg, "content")
  THEN InvalidChatMessages("Message at index " \o ToString(i) \o " is missing the 'content' property.")
  ELSE IF IsString(Get(msg, "content"))
  THEN ok(Obj([role |-> Get(msg, "role"),
               content |-> Arr(<<Obj([type |-> Str("text"), text |-> Get(msg, "content")])>>)]))
  ELSE IF Get(msg, "content").t = "array"
  THEN LET items == Get(msg, "content").a
           j == FirstBadItem(items)
       IN IF j = 0
          THEN ok(Obj([role |-> Get(msg, "role"), content |-> Get(msg, "content")]))
          ELSE IF ~TypeofObject(items[j]) \/ items[j] = Null
          THEN InvalidChatMessages("Content at index " \o ToString(j - 1) \o " in message "
                                   \o ToString(i) \o " is not a valid object.")
          ELSE InvalidChatMessages("Content at index " \o ToString(j - 1) \o " in message "
                                   \o ToString(i) \o " is missing a valid 'type' property.")
  ELSE InvalidChatMessages("Message at index " \o ToString(i) \o " has an invalid 'content' type.")

RECURSIVE ParseLoopSkipInvalid(_, _, _)
\* Variant of ParseLoop: an invalid message is left out.
ParseLoopSkipInvalid(messagesArray, i, messages) ==
  IF i > Len(messagesArray) THEN ok(Arr(messages))
  ELSE LET r == ParseOneMessage(messagesArray[i], i - 1)
       IN IF IsOk(r)
          THEN ParseLoopSkipInvalid(messagesArray, i + 1, Append(messages, Get(r, "value")))
          ELSE ParseLoopSkipInvalid(messagesArray, i + 1, messages)

RECURSIVE ParseLoop(_, _, _)
\* The for loop of parseChatMessages from index i (1-based) with the messages
\* pushed so far.
ParseLoop(messagesArray, i, messages) ==
  IF i > Len(messagesArray) THEN ok(Arr(messages))
  ELSE LET r == ParseOneMessage(messagesArray[i], i - 1)
       IN IF IsOk(r)
          THEN ParseLoop(messagesArray, i + 1, Append(messages, Get(r, "value")))
          ELSE r

parseChatMessages(input, path) ==
  LET target == IF Len(path) > 0 THEN traversePath(input, path) ELSE input
      messagesArray == IF target.t = "array" THEN target.a ELSE <<target>>
  IN IF Len(path) > 0 /\ target = Undef
     THEN InvalidChatMessages("Could not resolve path on the input object.")
     ELSE IF Len(messagesArray) = 0
     THEN InvalidChatMessages("Input does not contain any chat messages.")
     ELSE ParseLoop(messagesArray, 1, <<>>)

(***************************************************************************)
(* chat.ts: sendChatRequest and parseChatResponse.                         *)
(***************************************************************************)
\* What Bun.fetch does for one request: it throws, or it resolves to a
\* response with a status and a body text.
FetchThrew == [kind |-> "throw", message |-> "ConnectionRefused"]
HttpResponse(status, statusText, text) ==
  [kind |-> "response", status |-> status, statusText |-> statusText, text |-> text]
\* response.ok
ResponseOk(resp) == resp.status >= 200 /\ resp.status <= 299

\* Variant of MissingApiKey: only an unset key is detected (apiKey ===
\* undefined), an empty one is not.
MissingApiKeyOnlyUnset(apiKey) == apiKey = Undef

\* !apiKey: sendChatRequest returns before any fetch.
MissingApiKey(apiKey) == Falsy(apiKey)
\* The number of HTTP requests one call of sendChatRequest makes.
RequestsSent(apiKey) == IF MissingApiKey(apiKey) THEN 0 ELSE 1

\* A response body whose read fails (response.text() or response.json()
\* rejects before any text is parsed).
BodyUnreadable == [t |-> "unreadable"]

\* Variant of sendChatRequest: the detail of an HttpError is always the raw
\* text of the body.
sendChatRequestRawDetail(apiKey, net) ==
  IF MissingApiKey(apiKey) THEN err(AppError("MissingApiKey"))
  ELSE IF net.kind = "throw" THEN err(AppErrorDetail("FetchError", Str(net.message)))
  ELSE IF net.text = BodyUnreadable
  THEN err(AppErrorDetail("FetchError", Str("Body unreadable")))
  ELSE IF ~ResponseOk(net)
  THEN err(Obj([type |-> Str("HttpError"),
                status |-> Num(net.status),
                statusText |-> Str(net.statusText),
                detail |-> net.text]))
  ELSE LET data == JSONParse(net.text)
       IN IF data.ok THEN ok(data.v)
          ELSE err(AppErrorDetail("FetchError", Str("JSON Parse error")))

\* The Result of sendChatRequest, given what the fetch (if made) does.
sendChatRequest(apiKey, net) ==
  IF MissingApiKey(apiKey) THEN err(AppError("MissingApiKey"))
  ELSE IF net.kind = "throw" THEN err(AppErrorDetail("FetchError", Str(net.message)))
  ELSE IF net.text = BodyUnreadable
  THEN err(AppErrorDetail("FetchError", Str("Body unreadable")))
  ELSE IF ~ResponseOk(net)
  THEN LET parsed == JSONParse(net.text)
       IN err(Obj([type |-> Str("HttpError"),
                   status |-> Num(net.status),
                   statusText |-> Str(net.statusText),
                   detail |-> IF parsed.ok THEN parsed.v ELSE net.text]))
  ELSE LET data == JSONParse(net.text)
       IN IF data.ok THEN ok(data.v)
          ELSE err(AppErrorDetail("FetchError", Str("JSON Parse error")))

\* Variant of parseChatResponse without the early return: the content is
\* looked up in every Result.
parseChatResponseNoPassThrough(response) ==
  LET value == Get(response, "value")
      content == OptGet(OptGet(OptIdx(OptGet(value, "choices"), 0), "message"), "content")
  IN IF Falsy(content) THEN err(AppError("NoResponseContent"))
     ELSE LET parsed == JSONParse(content)
          IN IF parsed.ok THEN ok(parsed.v)
             ELSE err(AppError("InvalidResponseJson"))

parseChatResponse(response) ==
  IF ~IsOk(response) THEN response
  ELSE LET value == Get(response, "value")
           content == OptGet(OptGet(OptIdx(OptGet(value, "choices"), 0), "message"), "content")
       IN IF Falsy(content) THEN err(AppError("NoResponseContent"))
          ELSE LET parsed == JSONParse(content)
               IN IF parsed.ok THEN ok(parsed.v)
                  ELSE err(AppError("InvalidResponseJson"))

(***************************************************************************)
(* The requests and the replies of the outside world the model draws from. *)
(***************************************************************************)
TextItem(s) == Obj([type |-> Str("text"), text |-> Str(s)])
ImageItemStr(u) == Obj([type |-> Str("image_url"), image_url |-> Str(u)])
ImageItemObj(u) == Obj([type |-> Str("image_url"), image_url |-> Obj([url |-> Str(u)])])
Message(role, content) == Obj([role |-> Str(role), content |-> content])

DataUrl == "data:image/png;base64,AAAA"
HttpUrl == "https://example.com/a.png"
\* s.startsWith("data:image/") for the URL strings of this model.
StartsWithDataImage(s) == s \in {DataUrl, "data:image/png;base64,STITCHED", "data:image/jpeg;base64,AAAA"}

\* Messages parseChatMessages accepts.
ValidRawMessages ==
  { Message("user", Str("Mario theme")),
    Message("user", Arr(<<TextItem("Mario theme"), ImageItemObj(DataUrl)>>)),
    Message("assistant", Arr(<<TextItem("castle"), ImageItemStr(DataUrl)>>)),
    Message("assistant", Arr(<<ImageItemStr(HttpUrl)>>)),
    Message("assistant", Arr(<<ImageItemObj(DataUrl), Obj([type |-> Str("audio")])>>)),
    Message("system", Arr(<<Obj([type |-> Str("image_url")])>>)) }
\* Messages parseChatMessages rejects.
InvalidRawMessages ==
  { Str("hello"),
    Obj([content |-> Str("no role")]),
    Obj([role |-> Str("user")]),
    Message("user", Num(5)),
    Message("user", Arr(<<Null>>)),
    Message("user", Arr(<<Obj([text |-> Str("no type")])>>)) }
RawMessages == ValidRawMessages \cup InvalidRawMessages

\* All sequences over S of length 0..n.
SeqsUpTo(S, n) == UNION {[1..k -> S] : k \in 0..n}

\* A body that is not JSON: req.json() rejects.
BadJson == [t |-> "badjson"]
\* The request bodies.
Bodies ==
  {BadJson, Null, EmptyObj, Obj([messages |-> Null])}
  \cup {Obj([messages |-> m]) : m \in {Message("user", Str("Mario theme")), Str("hello")}}
  \cup {Obj([messages |-> Arr(ms)]) : ms \in SeqsUpTo(RawMessages, MaxMessages)}

\* process.env.OPENAI_API_KEY: unset, empty or set.
ApiKeys == {Undef, Str(""), Str("sk-test")}

\* The envelope of a chat completion whose message content is content.
Envelope(content) ==
  Obj([choices |-> Arr(<<Obj([message |-> Obj([content |-> content])])>>)])

ColorKeys == {"primary_color", "background_color", "text_color"}
FontKeys == {"header_font_family", "header_font_weight", "message_font_family",
             "message_font_weight", "placeholder_font_family", "placeholder_font_weight"}
LayoutKeys == {"bubble_size", "bubble_padding", "bubble_radius", "bubble_shadow",
               "bubble_max_width", "chat_container_max_width", "border_width",
               "border_style", "global_border_radius", "message_margin_bottom",
               "animation_speed", "transition_effect"}

\* A reply of the model that conforms to the JSON schema of the request.
GoodReply(purpose) ==
  CASE purpose = "keywords" -> Obj([keywords |-> Str("mario")])
    [] purpose = "fontname" -> Obj([primary_font_name |-> Str("Press Start 2P"),
                                    fallback_font_name |-> Str("Roboto")])
    [] purpose = "fontvars" -> Obj([k \in FontKeys |-> Str("font:" \o k)])
    [] purpose = "layout" -> Obj([k \in LayoutKeys |-> Str("layout:" \o k)])
    [] purpose = "text" -> Obj([response |-> Str("It's-a me!")])
    [] purpose = "palette" -> Obj([ui_changes |-> Obj([k \in ColorKeys |-> Str("color:" \o k)])])

\* What the completions endpoint can do with one request of the handler: the
\* fetch throws, or it answers with a conforming reply, or with a reply whose
\* content is not JSON.
LlmOutcomes(purpose) ==
  { FetchThrew,
    HttpResponse(200, "OK", JsonText(Envelope(JsonText(GoodReply(purpose))))),
    HttpResponse(200, "OK", JsonText(Envelope(Str("not json")))) }

(***************************************************************************)
(* State of one POST /api/chat request.                                    *)
(***************************************************************************)
VARIABLES
  apiKey,         \* process.env.OPENAI_API_KEY
  body,           \* the request body, until its messages are parsed (only latest is used then)
  hpc,            \* where the handler is
  latest,         \* handler local: the last parsed message
  latestContent,  \* handler local: the joined text of latest
  keywordContent, \* handler local: the content preprocessPipeline returned
  response,       \* how the handler ended: nothing yet, a JSON response, or a rejection
  pre,            \* the promise of preprocessPipeline: [st, val]
  pst,            \* for each fanned-out pipeline, where it is
  pres,           \* for each pipeline, the value or the rejection reason of its promise
  pargs,          \* for each pipeline, the argument it was called with
  col,            \* locals of colorPipeline
  fnt,            \* locals of fontPipeline
  http,           \* the number of HTTP requests made so far, per kind of request
  resumed,        \* the pipelines that have run a continuation after an await
  pendingAtEnd    \* the pipelines that were started and not settled when the handler ended

\* The state of the units that are checked on their own, outside a request:
\* each is used by one specification and is Unused in the others.
VARIABLES
  chat,           \* one call of sendChatRequest followed by parseChatResponse
  gcss,           \* one call of fetchGoogleFontCSS
  fx,             \* one application of a pure function: [fn, arg, out]
  cl              \* the browser client (client.js)

handlerVars == <<apiKey, body, hpc, latest, latestContent, keywordContent, response, pre,
                 pst, pres, pargs, col, fnt, http, resumed, pendingAtEnd>>
unitVars == <<chat, gcss, fx, cl>>
vars == <<handlerVars, unitVars>>

Unused == [pc |-> "unused"]

Pipelines == {"color", "font", "layout", "text"}
\* The order in which the array literal of Promise.all calls the pipelines.
CallOrder == <<"color", "font", "layout", "text">>
Settled == {"fulfilled", "rejected"}
RequestKinds == {"keywords", "fontname", "fontvars", "layout", "text", "palette",
                 "bing", "image", "metadata", "css_primary", "css_fallback", "base64"}
LlmKinds == {"keywords", "fontname", "fontvars", "layout", "text", "palette"}

NoResponse == [kind |-> "none"]
\* Response.json(obj)
JsonResponse(obj) == [kind |-> "json", body |-> obj]
\* The handler's promise rejected with reason.
Rejected(reason) == [kind |-> "rejected", reason |-> reason]

\* A promise of an async function.
Pending == [st |-> "pending", val |-> Undef]
Fulfilled(v) == [st |-> "fulfilled", val |-> v]
RejectedWith(e) == [st |-> "rejected", val |-> e]
TypeError == Obj([type |-> Str("TypeError")])

Init ==
  /\ apiKey \in ApiKeys
  /\ body \in Bodies
  /\ hpc = "received"
  /\ latest = Undef
  /\ latestContent = Undef
  /\ keywordContent = Undef
  /\ response = NoResponse
  /\ pre = [st |-> "idle", val |-> Undef]
  /\ pst = [p \in Pipelines |-> "idle"]
  /\ pres = [p \in Pipelines |-> Undef]
  /\ pargs = [p \in Pipelines |-> Undef]
  /\ col = [i |-> 0, imageUrls |-> <<>>, base64Images |-> <<>>, buffers |-> <<>>,
            urls |-> <<>>, sent |-> <<>>]
  /\ fnt = [primaryName |-> Undef, fallbackName |-> Undef, primaryUrl |-> Undef,
            fallbackUrl |-> Undef, css |-> Undef, fontString |-> Undef]
  /\ http = [k \in RequestKinds |-> 0]
  /\ resumed = {}
  /\ pendingAtEnd = {}
  /\ chat = Unused
  /\ gcss = Unused
  /\ fx = Unused
  /\ cl = Unused

\* The outcomes to choose from when a chat request completes: when no request
\* was made (no API key) there is nothing to choose.
ChatOutcomes(purpose) ==
  IF MissingApiKey(apiKey) THEN {FetchThrew} ELSE LlmOutcomes(purpose)

\* http after one more call of sendChatRequest for purpose.
CountChatRequest(h, purpose) == [h EXCEPT ![purpose] = @ + RequestsSent(apiKey)]
\* http after one more fetch of kind k.
CountFetch(h, k) == [h EXCEPT ![k] = @ + 1]

RECURSIVE JoinTexts(_)
\* items.join(" ") of the strings (or undefined, which joins as "") in items.
JoinTexts(items) ==
  IF items = <<>> THEN ""
  ELSE LET h == IF Head(items).t = "string" THEN Head(items).s ELSE ""
       IN IF Len(items) = 1 THEN h ELSE h \o " " \o JoinTexts(Tail(items))

\* content.map(c => c.type === "text" ? c.text : "").join(" ")
TextOf(content) ==
  Str(JoinTexts([j \in DOMAIN content.a |->
                   IF Get(content.a[j], "type") = Str("text")
                   THEN Get(content.a[j], "text") ELSE Str("")]))

(***************************************************************************)
(* index.ts: the POST /api/chat handler.                                   *)
(***************************************************************************)
\* Variant of handleError: the error is thrown instead of being returned as
\* a response.
handleErrorThrows(error, context) ==
  [kind |-> "rejected", reason |-> Obj([context |-> Str(context), error |-> error])]

\* handleError(error, context)
handleError(error, context) ==
  JsonResponse(Obj([type |-> Str("error"),
                    content |-> Obj([context |-> Str(context),
                                     error |-> IF Falsy(error) THEN Str("") ELSE JsonText(error)])]))

\* The handler ends with outcome r.
Finish(r) ==
  /\ response' = r
  /\ hpc' = "done"
  /\ pendingAtEnd' = {p \in Pipelines : pst[p] \notin Settled \cup {"idle"}}

\* Variant of preprocessCall: the keywords are extracted whatever the role.
preprocessCallAnyRole(message) == Pending

\* The synchronous start of preprocessPipeline(message): the promise it returns.
preprocessCall(message) ==
  IF Get(message, "role") = Str("user") THEN Pending ELSE Fulfilled(message)

\* Lines 14-27: req.json(), parseChatMessages, and the call of preprocessPipeline.
Receive ==
  /\ hpc = "received"
  /\ body' = IF body # BadJson /\ IsOk(parseChatMessages(body, <<"messages">>)) THEN Undef ELSE body
  /\ IF body = BadJson
     THEN /\ Finish(Rejected(Obj([type |-> Str("SyntaxError")])))
          /\ UNCHANGED <<latest, latestContent, pre, http>>
     ELSE LET messages == parseChatMessages(body, <<"messages">>)
          IN IF ~IsOk(messages)
             THEN /\ Finish(handleError(Get(messages, "error"), "Message parsing"))
                  /\ UNCHANGED <<latest, latestContent, pre, http>>
             ELSE LET value == Get(messages, "value").a
                      last == value[Len(value)]
                  IN /\ latest' = last
                     /\ latestContent' = TextOf(Get(last, "content"))
                     /\ pre' = preprocessCall(last)
                     /\ http' = IF preprocessCall(last).st = "pending"
                                THEN CountChatRequest(http, "keywords") ELSE http
                     /\ hpc' = "await_preprocess"
                     /\ UNCHANGED <<response, pendingAtEnd>>
  /\ UNCHANGED unitVars
  /\ UNCHANGED <<apiKey, keywordContent, pst, pres, pargs, col, fnt, resumed>>

\* preprocess.ts lines 13-19: extractKeywords completes.
PreprocessResume ==
  /\ pre.st = "pending"
  /\ \E net \in ChatOutcomes("keywords") :
       LET keywordsResult == parseChatResponse(sendChatRequest(apiKey, net))
       IN pre' = IF ~IsOk(keywordsResult)
                 THEN RejectedWith(Get(keywordsResult, "error"))
                 ELSE Fulfilled(Obj(Spread(latest.o,
                        [content |-> Arr(<<Obj([type |-> Str("text"),
                           text |-> ToStringOrEmpty(OptGet(Get(keywordsResult, "value"), "keywords"))])>>)])))
  /\ UNCHANGED unitVars
  /\ UNCHANGED <<apiKey, body, hpc, latest, latestContent, keywordContent, response,
                 pst, pres, pargs, col, fnt, http, resumed, pendingAtEnd>>

\* Variant of PreprocessAwaited: the await is missing, the handler goes on
\* as soon as preprocessPipeline has been called.
PreprocessNotAwaited == pre.st # "idle"

\* await preprocessPipeline(latest): the handler goes on once the promise has settled.
PreprocessAwaited == pre.st \in Settled

\* Line 27: the handler resumes after preprocessPipeline.
AfterPreprocess ==
  /\ hpc = "await_preprocess"
  /\ PreprocessAwaited
  /\ IF pre.st = "rejected"
     THEN /\ Finish(Rejected(pre.val))
          /\ UNCHANGED keywordContent
     ELSE /\ keywordContent' = OptGet(pre.val, "content")
          /\ hpc' = "call_color"
          /\ UNCHANGED <<response, pendingAtEnd>>
  /\ UNCHANGED unitVars
  /\ UNCHANGED <<apiKey, body, latest, latestContent, pre, pst, pres, pargs, col, fnt,
                 http, resumed>>

\* Variant of StartsAfter: each pipeline is awaited before the next one is
\* called.
StartsAfterSequential(p) ==
  {CallOrder[i] : i \in {i \in DOMAIN CallOrder : \E j \in DOMAIN CallOrder : i < j /\ CallOrder[j] = p}}

\* The pipelines whose settlement the call of pipeline p waits for: none, the
\* four calls are the elements of one array literal with no await between them.
StartsAfter(p) == {}

\* The handler is at the call of pipeline p and can make it.
CanCall(p) ==
  /\ hpc = "call_" \o p
  /\ \A q \in StartsAfter(p) : pst[q] \in Settled

\* await Promise.all([...]) has an outcome: a pipeline rejected, or all fulfilled.
AllSettledOrRejected ==
  \/ \E p \in Pipelines : pst[p] = "rejected"
  \/ \A p \in Pipelines : pst[p] = "fulfilled"

\* The handler has JavaScript to run now; a continuation of a pipeline runs
\* only when it has not (run to completion, microtasks before I/O callbacks).
HandlerRunning ==
  \/ hpc = "received"
  \/ hpc = "await_preprocess" /\ PreprocessAwaited
  \/ \E p \in Pipelines : CanCall(p)
  \/ hpc = "await_all" /\ AllSettledOrRejected

\* The position of the handler after the call of pipeline p.
AfterCall(p) ==
  CASE p = "color" -> "call_font"
    [] p = "font" -> "call_layout"
    [] p = "layout" -> "call_text"
    [] p = "text" -> "await_all"

(***************************************************************************)
(* text.ts: textPipeline.                                                  *)
(***************************************************************************)
CallText ==
  /\ CanCall("text")
  /\ pargs' = [pargs EXCEPT !["text"] = latestContent]
  /\ http' = CountChatRequest(http, "text")
  /\ pst' = [pst EXCEPT !["text"] = "llm"]
  /\ hpc' = AfterCall("text")
  /\ UNCHANGED unitVars
  /\ UNCHANGED <<apiKey, body, latest, latestContent, keywordContent, response, pre,
                 pres, col, fnt, resumed, pendingAtEnd>>

\* Lines 53-56 of text.ts.
textResult(result) ==
  IF ~IsOk(result) THEN RejectedWith(Get(result, "error"))
  ELSE Fulfilled(ToStringOrEmpty(OptGet(Get(result, "value"), "response")))

TextResume ==
  /\ ~HandlerRunning
  /\ pst["text"] = "llm"
  /\ \E net \in ChatOutcomes("text") :
       LET p == textResult(parseChatResponse(sendChatRequest(apiKey, net)))
       IN /\ pst' = [pst EXCEPT !["text"] = p.st]
          /\ pres' = [pres EXCEPT !["text"] = p.val]
  /\ resumed' = resumed \cup {"text"}
  /\ UNCHANGED unitVars
  /\ UNCHANGED <<apiKey, body, hpc, latest, latestContent, keywordContent, response, pre,
                 pargs, col, fnt, http, pendingAtEnd>>

(***************************************************************************)
(* layout.ts: layoutPipeline.                                              *)
(***************************************************************************)
CallLayout ==
  /\ CanCall("layout")
  /\ pargs' = [pargs EXCEPT !["layout"] = latestContent]
  /\ http' = CountChatRequest(http, "layout")
  /\ pst' = [pst EXCEPT !["layout"] = "llm"]
  /\ hpc' = AfterCall("layout")
  /\ UNCHANGED unitVars
  /\ UNCHANGED <<apiKey, body, latest, latestContent, keywordContent, response, pre,
                 pres, col, fnt, resumed, pendingAtEnd>>

\* Lines 78-81 of layout.ts: the response of sendChatRequest is not passed
\* through parseChatResponse.
layoutResult(resp) ==
  IF ~IsOk(resp) THEN resp
  ELSE ok(Obj([ui_changes |-> Get(resp, "value")]))

LayoutResume ==
  /\ ~HandlerRunning
  /\ pst["layout"] = "llm"
  /\ \E net \in ChatOutcomes("layout") :
       pres' = [pres EXCEPT !["layout"] = layoutResult(sendChatRequest(apiKey, net))]
  /\ pst' = [pst EXCEPT !["layout"] = "fulfilled"]
  /\ resumed' = resumed \cup {"layout"}
  /\ UNCHANGED unitVars
  /\ UNCHANGED <<apiKey, body, hpc, latest, latestContent, keywordContent, response, pre,
                 pargs, col, fnt, http, pendingAtEnd>>

(***************************************************************************)
(* fonts.ts: fontPipeline and its helpers.                                 *)
(***************************************************************************)
\* A string that is looked at character by character is the sequence of its
\* characters.  The characters of the font names the model's LLM replies with:
CharsOf(s) ==
  CASE s = "Press Start 2P" ->
         <<"P", "r", "e", "s", "s", " ", "S", "t", "a", "r", "t", " ", "2", "P">>
    [] s = "Roboto" -> <<"R", "o", "b", "o", "t", "o">>
    [] OTHER -> <<>>
\* c.toLowerCase() for the characters of this model.
ToLowerChar(c) ==
  CASE c = "P" -> "p" [] c = "S" -> "s" [] c = "R" -> "r" [] c = "O" -> "o" [] OTHER -> c
toLowerCase(cs) == [i \in DOMAIN cs |-> ToLowerChar(cs[i])]
\* \s
IsSpace(c) == c = " "
RECURSIVE TrimStart(_)
TrimStart(cs) == IF cs # <<>> /\ IsSpace(Head(cs)) THEN TrimStart(Tail(cs)) ELSE cs
RECURSIVE TrimEnd(_)
TrimEnd(cs) ==
  IF cs # <<>> /\ IsSpace(cs[Len(cs)]) THEN TrimEnd(SubSeq(cs, 1, Len(cs) - 1)) ELSE cs
\* cs.trim()
trim(cs) == TrimEnd(TrimStart(cs))
\* Variant of ReplaceSpaces: white space is left as it is.
KeepSpaces(cs) == cs

RECURSIVE ReplaceSpaces(_)
\* cs.replace(/\s+/g, "+"): every run of white space becomes one "+".
ReplaceSpaces(cs) ==
  IF cs = <<>> THEN <<>>
  ELSE IF IsSpace(Head(cs)) THEN <<"+">> \o ReplaceSpaces(TrimStart(Tail(cs)))
  ELSE <<Head(cs)>> \o ReplaceSpaces(Tail(cs))
RECURSIVE Joined(_)
\* The string with the characters cs.
Joined(cs) == IF cs = <<>> THEN "" ELSE Head(cs) \o Joined(Tail(cs))

\* A key of fontData.fonts: "<weight>" for a regular style, "<weight>i" for
\* an italic one.
FontKey(weight, italic) == [weight |-> weight, i |-> italic]
\* The metadata of one family: its name and the keys of its fonts.
Family(family, fonts) == [family |-> family, fonts |-> fonts]
\* What fetchGoogleFontsMetadata can give: it throws (fetch failed, status
\* not OK, or text not JSON), or it returns a familyMetadataList.
MetadataOutcomes ==
  { [kind |-> "throw"],
    [kind |-> "list",
     families |-> << Family(CharsOf("Press Start 2P"), {FontKey(400, FALSE)}),
                     Family(CharsOf("Roboto"), {FontKey(100, FALSE), FontKey(400, FALSE),
                                                FontKey(400, TRUE)}) >>] }

\* getFontWeights lines 79-87: the keys of the first family whose name is
\* fontName up to case ("<key> italic" for the keys with an "i"), or null.
getFontWeights(fontName, list) ==
  LET hits == {i \in DOMAIN list : toLowerCase(list[i].family) = toLowerCase(fontName)}
  IN IF hits = {} THEN Null
     ELSE [t |-> "array", keys |-> list[CHOOSE i \in hits : \A j \in hits : i <= j].fonts]

RECURSIVE JoinWeights(_, _)
\* The weights of S in ascending order, each prefixed with ital (a.sort((a, b)
\* => a - b) and join(";<ital>,"))
JoinWeights(S, ital) ==
  IF S = {} THEN ""
  ELSE LET m == CHOOSE x \in S : \A y \in S : x <= y
       IN ital \o "," \o ToString(m)
          \o (IF S = {m} THEN "" ELSE ";" \o JoinWeights(S \ {m}, ital))

\* buildGoogleFontsUrl lines 99-155 for one font name (its characters), given
\* the familyMetadataList.  Every key of the metadata is a number with or
\* without an "i", so no weight is dropped as NaN.
buildGoogleFontsUrlOf(font, list) ==
  LET weights == getFontWeights(font, list)
      familyParams ==
        IF weights = Null \/ weights.keys = {} THEN ""
        ELSE LET formattedFont == Joined(ReplaceSpaces(trim(font)))
                 italicWeights == {k.weight : k \in {x \in weights.keys : x.i}}
                 regularWeights == {k.weight : k \in {x \in weights.keys : ~x.i}}
                 pairs == JoinWeights(regularWeights, "0")
                          \o (IF regularWeights # {} /\ italicWeights # {} THEN ";" ELSE "")
                          \o JoinWeights(italicWeights, "1")
             IN "family=" \o formattedFont \o ":ital,wght@" \o pairs
  IN Str("https://fonts.googleapis.com/css2?" \o familyParams \o "&display=swap")

\* buildGoogleFontsUrl for a font name of the LLM's reply.
buildGoogleFontsUrl(fontName, families) == buildGoogleFontsUrlOf(CharsOf(fontName.s), families)

PrimaryCss == Str("@font-face { font-family: 'Press Start 2P'; font-style: normal; font-weight: 400; }")
FallbackCss == Str("@font-face { font-family: 'Roboto'; font-style: normal; font-weight: 400; }")
\* css.includes("font-family") for the texts of this model.
IncludesFontFamily(css) == css \in {PrimaryCss, FallbackCss, Str("/* font-family */")}
\* What the fetch of a Google Fonts CSS URL can do.
CssOutcomes(valid) ==
  { FetchThrew,
    HttpResponse(400, "Bad Request", Str("")),
    HttpResponse(200, "OK", valid),
    HttpResponse(200, "OK", Str("")),
    HttpResponse(200, "OK", Str("<html>")) }
\* Variant of CssUsable: only the status of the response is looked at.
CssUsableByStatus(net) ==
  /\ net.kind = "response"
  /\ ResponseOk(net)

\* The response of a CSS fetch is usable: no throw, status OK, CSS not empty
\* and containing "font-family".
CssUsable(net) ==
  /\ net.kind = "response"
  /\ ResponseOk(net)
  /\ ~Falsy(net.text)
  /\ IncludesFontFamily(net.text)

\* One match of fontFaceRegex: an @font-face block with its font-family, its
\* font-style and the digits of its font-weight.
FontFace(fontFamily, fontStyle, fontWeight) ==
  [fontFamily |-> fontFamily, fontStyle |-> fontStyle, fontWeight |-> fontWeight]
\* The matches of fontFaceRegex in the CSS texts of this model, in text order.
FontFacesOf(cssText) ==
  CASE cssText = PrimaryCss -> <<FontFace("Press Start 2P", "normal", <<"4", "0", "0">>)>>
    [] cssText = FallbackCss -> <<FontFace("Roboto", "normal", <<"4", "0", "0">>)>>
    [] OTHER -> <<>>
\* The UTF-16 code unit of a character of a style key.
CharCode(c) ==
  CASE c = " " -> 32 [] c = "0" -> 48 [] c = "1" -> 49 [] c = "2" -> 50 [] c = "3" -> 51
    [] c = "4" -> 52 [] c = "5" -> 53 [] c = "6" -> 54 [] c = "7" -> 55 [] c = "8" -> 56
    [] c = "9" -> 57 [] c = "a" -> 97 [] c = "c" -> 99 [] c = "i" -> 105 [] c = "l" -> 108
    [] c = "t" -> 116
RECURSIVE StringLess(_, _)
\* a < b for two strings, as Array.prototype.sort compares them without a
\* compare function: code unit by code unit, a proper prefix first.
StringLess(a, b) ==
  IF b = <<>> THEN FALSE
  ELSE IF a = <<>> THEN TRUE
  ELSE IF Head(a) # Head(b) THEN CharCode(Head(a)) < CharCode(Head(b))
  ELSE StringLess(Tail(a), Tail(b))
RECURSIVE Sorted(_)
\* Array.from(styles).sort()
Sorted(styles) ==
  IF styles = {} THEN <<>>
  ELSE LET least == CHOOSE x \in styles : \A y \in styles \ {x} : StringLess(x, y)
       IN <<least>> \o Sorted(styles \ {least})
\* Variant of StyleKey: the weight alone, whatever the style.
StyleKeyWeightOnly(face) == face.fontWeight

\* Line 175: the key of a match.
StyleKey(face) ==
  IF face.fontStyle = "italic" THEN <<"i", "t", "a", "l", "i", "c", " ">> \o face.fontWeight
  ELSE face.fontWeight
RECURSIVE FamiliesInOrder(_, _)
\* The keys of fontMap in insertion order: the families of the matches, each
\* where it first appears.
FamiliesInOrder(faces, seen) ==
  IF faces = <<>> THEN <<>>
  ELSE IF Head(faces).fontFamily \in seen THEN FamiliesInOrder(Tail(faces), seen)
  ELSE <<Head(faces).fontFamily>>
       \o FamiliesInOrder(Tail(faces), seen \cup {Head(faces).fontFamily})
RECURSIVE JoinStrings(_, _)
\* seq.join(sep)
JoinStrings(seq, sep) ==
  IF seq = <<>> THEN ""
  ELSE IF Len(seq) = 1 THEN seq[1]
  ELSE seq[1] \o sep \o JoinStrings(Tail(seq), sep)
\* parseGoogleFontCSS lines 164-186, given the matches of the regular
\* expression in the text.
parseGoogleFontCSSOf(faces) ==
  LET fonts == FamiliesInOrder(faces, {})
      styles(font) == {StyleKey(faces[i]) : i \in {j \in DOMAIN faces : faces[j].fontFamily = font}}
      entry(font) ==
        LET sorted == Sorted(styles(font))
        IN font \o ": " \o JoinStrings([i \in DOMAIN sorted |-> Joined(sorted[i])], ", ")
  IN JoinStrings([i \in DOMAIN fonts |-> entry(fonts[i])], " | ")
\* parseGoogleFontCSS for the CSS texts of this model.
parseGoogleFontCSS(cssText) == Str(parseGoogleFontCSSOf(FontFacesOf(cssText)))

SetPipeline(p, promise) ==
  /\ pst' = [pst EXCEPT ![p] = promise.st]
  /\ pres' = [pres EXCEPT ![p] = promise.val]

\* Line 56: sendFontNameRequest(prompt) is sent.
CallFont ==
  /\ CanCall("font")
  /\ pargs' = [pargs EXCEPT !["font"] = latestContent]
  /\ http' = CountChatRequest(http, "fontname")
  /\ pst' = [pst EXCEPT !["font"] = "name"]
  /\ hpc' = AfterCall("font")
  /\ UNCHANGED unitVars
  /\ UNCHANGED <<apiKey, body, latest, latestContent, keywordContent, response, pre,
                 pres, col, fnt, resumed, pendingAtEnd>>

\* Lines 56-59: the font names arrive; the metadata for the primary name is fetched.
FontNameResume ==
  /\ ~HandlerRunning
  /\ pst["font"] = "name"
  /\ resumed' = resumed \cup {"font"}
  /\ \E net \in ChatOutcomes("fontname") :
       LET nameResult == parseChatResponse(sendChatRequest(apiKey, net))
       IN IF ~IsOk(nameResult)
          THEN /\ SetPipeline("font", Fulfilled(nameResult))
               /\ UNCHANGED <<fnt, http>>
          ELSE /\ fnt' = [fnt EXCEPT
                   !.primaryName = ToStringOrEmpty(OptGet(Get(nameResult, "value"), "primary_font_name")),
                   !.fallbackName = ToStringOrEmpty(OptGet(Get(nameResult, "value"), "fallback_font_name"))]
               /\ http' = CountFetch(http, "metadata")
               /\ pst' = [pst EXCEPT !["font"] = "meta_primary"]
               /\ UNCHANGED pres
  /\ UNCHANGED unitVars
  /\ UNCHANGED <<apiKey, body, hpc, latest, latestContent, keywordContent, response, pre,
                 pargs, col, pendingAtEnd>>

\* Lines 59-60: primaryUrl is built; the metadata for the fallback name is fetched.
FontMetaPrimaryResume ==
  /\ ~HandlerRunning
  /\ pst["font"] = "meta_primary"
  /\ \E m \in MetadataOutcomes :
       IF m.kind = "throw"
       THEN /\ SetPipeline("font", RejectedWith(Obj([type |-> Str("Error")])))
            /\ UNCHANGED <<fnt, http>>
       ELSE /\ fnt' = [fnt EXCEPT !.primaryUrl = buildGoogleFontsUrl(fnt.primaryName, m.families)]
            /\ http' = CountFetch(http, "metadata")
            /\ pst' = [pst EXCEPT !["font"] = "meta_fallback"]
            /\ UNCHANGED pres
  /\ UNCHANGED unitVars
  /\ UNCHANGED <<apiKey, body, hpc, latest, latestContent, keywordContent, response, pre,
                 pargs, col, resumed, pendingAtEnd>>

\* Lines 60-62: fallbackUrl is built; fetchGoogleFontCSS fetches the primary URL.
FontMetaFallbackResume ==
  /\ ~HandlerRunning
  /\ pst["font"] = "meta_fallback"
  /\ \E m \in MetadataOutcomes :
       IF m.kind = "throw"
       THEN /\ SetPipeline("font", RejectedWith(Obj([type |-> Str("Error")])))
            /\ UNCHANGED <<fnt, http>>
       ELSE /\ fnt' = [fnt EXCEPT !.fallbackUrl = buildGoogleFontsUrl(fnt.fallbackName, m.families)]
            /\ http' = CountFetch(http, "css_primary")
            /\ pst' = [pst EXCEPT !["font"] = "css_primary"]
            /\ UNCHANGED pres
  /\ UNCHANGED unitVars
  /\ UNCHANGED <<apiKey, body, hpc, latest, latestContent, keywordContent, response, pre,
                 pargs, col, resumed, pendingAtEnd>>

\* Variant of FontGotCss: the summary is that of the CSS of the primary font.
FontGotCssSummaryOfPrimary(css) ==
  /\ fnt' = [fnt EXCEPT !.css = css, !.fontString = parseGoogleFontCSS(PrimaryCss)]
  /\ http' = CountChatRequest(http, "fontvars")
  /\ pst' = [pst EXCEPT !["font"] = "vars"]
  /\ UNCHANGED pres

\* Lines 65-67 of fontPipeline: the CSS is summarised and sendFontVarsRequest is sent.
FontGotCss(css) ==
  /\ fnt' = [fnt EXCEPT !.css = css, !.fontString = parseGoogleFontCSS(css)]
  /\ http' = CountChatRequest(http, "fontvars")
  /\ pst' = [pst EXCEPT !["font"] = "vars"]
  /\ UNCHANGED pres

\* fetchGoogleFontCSS lines 198-218: the primary fetch completes.
FontCssPrimaryResume ==
  /\ ~HandlerRunning
  /\ pst["font"] = "css_primary"
  /\ \E net \in CssOutcomes(PrimaryCss) :
       IF CssUsable(net)
       THEN FontGotCss(net.text)
       ELSE /\ http' = CountFetch(http, "css_fallback")
            /\ pst' = [pst EXCEPT !["font"] = "css_fallback"]
            /\ UNCHANGED <<fnt, pres>>
  /\ UNCHANGED unitVars
  /\ UNCHANGED <<apiKey, body, hpc, latest, latestContent, keywordContent, response, pre,
                 pargs, col, resumed, pendingAtEnd>>

\* fetchFallbackCSS lines 224-243: the fallback fetch completes.
FontCssFallbackResume ==
  /\ ~HandlerRunning
  /\ pst["font"] = "css_fallback"
  /\ \E net \in CssOutcomes(FallbackCss) :
       IF CssUsable(net)
       THEN FontGotCss(net.text)
       ELSE /\ SetPipeline("font", Fulfilled(err(AppError("FallbackFailed"))))
            /\ UNCHANGED <<fnt, http>>
  /\ UNCHANGED unitVars
  /\ UNCHANGED <<apiKey, body, hpc, latest, latestContent, keywordContent, response, pre,
                 pargs, col, resumed, pendingAtEnd>>

\* Lines 67-70: the value fontPipeline returns once sendFontVarsRequest completed.
fontResult(varsResult, css) ==
  IF ~IsOk(varsResult) THEN varsResult
  ELSE ok(Obj([css |-> css, ui_changes |-> Obj(OwnProps(Get(varsResult, "value")))]))

FontVarsResume ==
  /\ ~HandlerRunning
  /\ pst["font"] = "vars"
  /\ \E net \in ChatOutcomes("fontvars") :
       SetPipeline("font",
         Fulfilled(fontResult(parseChatResponse(sendChatRequest(apiKey, net)), fnt.css)))
  /\ UNCHANGED unitVars
  /\ UNCHANGED <<apiKey, body, hpc, latest, latestContent, keywordContent, response, pre,
                 pargs, col, fnt, http, resumed, pendingAtEnd>>

(***************************************************************************)
(* images.ts: colorPipeline and sendPaletteRequest.                        *)
(***************************************************************************)
\* The number of results scrapeBingImages is asked for.
NumResults == 4
\* The image URLs of a results page with k results.
PageUrls(k) == [j \in 1..k |-> "https://img.example/" \o ToString(j)]
\* What the fetch of the results page gives: the fetch, the read of the body
\* or the parse of the HTML throws, or there is a document with its a.iusc
\* anchors, each with the value of its m attribute (Null without one).
PageThrew == [kind |-> "throw"]
HtmlPage(anchors) == [kind |-> "html", anchors |-> anchors]
\* The m attribute of a result whose image is at url.
MAttr(url) == JsonText(Obj([murl |-> Str(url)]))
\* Lines 135-147: what one anchor adds to imageUrls.
AnchorUrls(mAttr) ==
  IF Falsy(mAttr) THEN <<>>
  ELSE LET mData == JSONParse(mAttr)
       IN IF ~mData.ok \/ Throws(mData.v) THEN <<>>
          ELSE IF Falsy(Get(mData.v, "murl")) THEN <<>>
          ELSE <<Get(mData.v, "murl").s>>
RECURSIVE ImageUrlsOf(_)
\* Lines 132-147: imageUrls after the forEach over the anchors.
ImageUrlsOf(anchors) ==
  IF anchors = <<>> THEN <<>> ELSE AnchorUrls(Head(anchors)) \o ImageUrlsOf(Tail(anchors))
\* Variant of SliceTo: nothing is cut off.
SliceAll(sq, end) == sq

\* sq.slice(0, end) for end >= 0.
SliceTo(sq, end) == SubSeq(sq, 1, IF Len(sq) < end THEN Len(sq) ELSE end)
\* scrapeBingImages lines 110-151, given what the fetch of the page gives.
scrapeBingImages(page, numResults) ==
  IF page.kind = "throw" THEN <<>>
  ELSE SliceTo(ImageUrlsOf(page.anchors), numResults)
\* scrapeBingImages(term, NumResults) on a page with k results (k = 0 also
\* when the fetch or the parse failed).
ScrapeResult(k) ==
  scrapeBingImages(HtmlPage([j \in 1..k |-> MAttr(PageUrls(k)[j])]), NumResults)

RECURSIVE SelectSeq2Reversed(_, _, _)
\* Variant of SelectSeq2: the elements come out last first.
SelectSeq2Reversed(sq, keep, base) ==
  IF sq = <<>> THEN <<>>
  ELSE SelectSeq2Reversed(Tail(sq), keep, base + 1)
       \o (IF base + 1 \in keep THEN <<Head(sq)>> ELSE <<>>)

RECURSIVE SelectSeq2(_, _, _)
\* The elements of sq whose index (offset by base) is in keep, in order.
SelectSeq2(sq, keep, base) ==
  IF sq = <<>> THEN <<>>
  ELSE (IF base + 1 \in keep THEN <<Head(sq)>> ELSE <<>>) \o SelectSeq2(Tail(sq), keep, base + 1)

RECURSIVE ColorLoop(_, _, _, _)
\* The for loop of lines 251-268 from item i on, up to its next await: it
\* stops at a text item to scrape ("scrape"), returns an error ("return"),
\* throws ("throw") or ends ("done").
ColorLoop(contents, i, imageUrls, base64Images) ==
  IF i > Len(contents)
  THEN [next |-> "done", i |-> i, imageUrls |-> imageUrls, base64Images |-> base64Images]
  ELSE LET content == contents[i]
           image == Get(content, "image_url")
           url == IF IsString(image) THEN image ELSE Get(image, "url")
       IN IF Get(content, "type") = Str("text")
          THEN [next |-> "scrape", i |-> i, imageUrls |-> imageUrls, base64Images |-> base64Images]
          ELSE IF Get(content, "type") = Str("image_url")
          THEN IF Throws(image) \/ ~IsString(url)
               THEN [next |-> "throw", i |-> i, imageUrls |-> imageUrls, base64Images |-> base64Images]
               ELSE IF ~StartsWithDataImage(url.s)
               THEN [next |-> "return", i |-> i, imageUrls |-> imageUrls, base64Images |-> base64Images]
               ELSE ColorLoop(contents, i + 1, imageUrls, Append(base64Images, url.s))
          ELSE ColorLoop(contents, i + 1, imageUrls, base64Images)

InvalidImageUrl == err(AppErrorDetail("InvalidImageUrl", Str("Expected base64 image URL")))
StitchingError(detail) == err(AppErrorDetail("StitchingError", Str(detail)))

\* The loop has run up to its next await with outcome l: the state of colorPipeline.
ColorAfterLoop(l) ==
  /\ col' = [col EXCEPT !.i = l.i, !.imageUrls = l.imageUrls, !.base64Images = l.base64Images]
  /\ CASE l.next = "scrape" ->
            /\ http' = CountFetch(http, "bing")
            /\ pst' = [pst EXCEPT !["color"] = "scrape"]
            /\ UNCHANGED pres
       [] l.next = "return" ->
            /\ SetPipeline("color", Fulfilled(InvalidImageUrl))
            /\ UNCHANGED http
       [] l.next = "throw" ->
            /\ SetPipeline("color", RejectedWith(TypeError))
            /\ UNCHANGED http
       [] l.next = "done" ->
            \* lines 270-277: one fetch per image URL, then await allSettled
            /\ http' = [http EXCEPT !["image"] = @ + Len(l.imageUrls)]
            /\ pst' = [pst EXCEPT !["color"] = "images"]
            /\ UNCHANGED pres

\* colorPipeline(keywordContent) is called: it runs up to its first await.
CallColor ==
  /\ CanCall("color")
  /\ pargs' = [pargs EXCEPT !["color"] = keywordContent]
  /\ hpc' = AfterCall("color")
  /\ IF keywordContent.t # "array"
     THEN /\ SetPipeline("color", RejectedWith(TypeError))
          /\ UNCHANGED <<col, http>>
     ELSE ColorAfterLoop(ColorLoop(keywordContent.a, 1, <<>>, <<>>))
  /\ UNCHANGED unitVars
  /\ UNCHANGED <<apiKey, body, latest, latestContent, keywordContent, response, pre,
                 fnt, resumed, pendingAtEnd>>

\* Lines 253-254: scrapeBingImages returns; the loop goes on.
ColorScrapeResume ==
  /\ ~HandlerRunning
  /\ pst["color"] = "scrape"
  /\ resumed' = resumed \cup {"color"}
  /\ \E k \in 0..MaxFound :
       ColorAfterLoop(ColorLoop(pargs["color"].a, col.i + 1,
                                col.imageUrls \o ScrapeResult(k), col.base64Images))
  /\ UNCHANGED unitVars
  /\ UNCHANGED <<apiKey, body, hpc, latest, latestContent, keywordContent, response, pre,
                 pargs, fnt, pendingAtEnd>>

\* Lines 277-287: the fetches and downsamples have settled; the images in
\* fetched are those that gave a buffer.  stitchHorizontally of no buffer is
\* an error, otherwise sharp reads the metadata of the buffers.
ColorImagesResume ==
  /\ ~HandlerRunning
  /\ pst["color"] = "images"
  /\ resumed' = resumed \cup {"color"}
  /\ \E fetched \in SUBSET (1..Len(col.imageUrls)) :
       LET buffers == SelectSeq2(col.imageUrls, fetched, 0)
       IN /\ col' = [col EXCEPT !.buffers = buffers]
          /\ IF Len(buffers) = 0
             THEN SetPipeline("color", Fulfilled(StitchingError("No buffers to stitch.")))
             ELSE /\ pst' = [pst EXCEPT !["color"] = "stitch"]
                  /\ UNCHANGED pres
  /\ UNCHANGED unitVars
  /\ UNCHANGED <<apiKey, body, hpc, latest, latestContent, keywordContent, response, pre,
                 pargs, fnt, http, pendingAtEnd>>

StitchedImage == "data:image/png;base64,STITCHED"
\* What sharp can do with the buffers: stitch them, throw inside
\* stitchHorizontally (caught there), or throw in toBuffer (line 289, not caught).
SharpOutcomes == {"stitched", "metadata_throws", "toBuffer_throws"}
\* The data URL fetchToBase64 makes of the image at url.
fetchToBase64(url) == "data:image/jpeg;base64,<" \o url \o ">"

\* Lines 286-300 and sendPaletteRequest lines 63-79: the collage is made and
\* sendPaletteRequest starts one fetchToBase64 per image.
ColorStitchResume ==
  /\ ~HandlerRunning
  /\ pst["color"] = "stitch"
  /\ \E o \in SharpOutcomes :
       CASE o = "metadata_throws" ->
              /\ SetPipeline("color", Fulfilled(StitchingError("Stitching error")))
              /\ UNCHANGED <<col, http>>
         [] o = "toBuffer_throws" ->
              /\ SetPipeline("color", RejectedWith(Obj([type |-> Str("Error")])))
              /\ UNCHANGED <<col, http>>
         [] o = "stitched" ->
              /\ http' = [http EXCEPT !["base64"] = @ + Len(col.base64Images) + 1]
              /\ pst' = [pst EXCEPT !["color"] = "base64"]
              /\ col' = [col EXCEPT !.urls = Append(col.base64Images, StitchedImage)]
              /\ UNCHANGED pres
  /\ UNCHANGED unitVars
  /\ UNCHANGED <<apiKey, body, hpc, latest, latestContent, keywordContent, response, pre,
                 pargs, fnt, resumed, pendingAtEnd>>

\* sendPaletteRequest lines 78-102: the fetchToBase64 promises have settled,
\* those in kept fulfilled; the palette request is sent with their images.
ColorBase64Resume ==
  /\ ~HandlerRunning
  /\ pst["color"] = "base64"
  /\ \E kept \in SUBSET (DOMAIN col.urls) :
       LET b64s == SelectSeq2([j \in DOMAIN col.urls |-> fetchToBase64(col.urls[j])], kept, 0)
       IN col' = [col EXCEPT !.sent = b64s]
  /\ http' = CountChatRequest(http, "palette")
  /\ pst' = [pst EXCEPT !["color"] = "palette"]
  /\ UNCHANGED unitVars
  /\ UNCHANGED <<apiKey, body, hpc, latest, latestContent, keywordContent, response, pre,
                 pres, pargs, fnt, resumed, pendingAtEnd>>

\* sendPaletteRequest line 103.
paletteResult(p) ==
  IF IsOk(p) THEN ok(Obj([ui_changes |-> Get(Get(p, "value"), "ui_changes")])) ELSE p

\* Lines 300-308: the value colorPipeline returns once the palette request completed.
colorResult(css, c) ==
  IF ~IsOk(css) THEN err(AppErrorDetail("PaletteError", JsonText(Get(css, "error"))))
  ELSE ok(Obj(Spread([imageUrls |-> Arr([j \in DOMAIN c.imageUrls |-> Str(c.imageUrls[j])]),
                      base64Images |-> Arr([j \in DOMAIN c.base64Images |-> Str(c.base64Images[j])]),
                      stitchedImage |-> Str(StitchedImage)],
                     OwnProps(Get(css, "value")))))

ColorPaletteResume ==
  /\ ~HandlerRunning
  /\ pst["color"] = "palette"
  /\ \E net \in ChatOutcomes("palette") :
       SetPipeline("color",
         Fulfilled(colorResult(paletteResult(parseChatResponse(sendChatRequest(apiKey, net))), col)))
  /\ UNCHANGED unitVars
  /\ UNCHANGED <<apiKey, body, hpc, latest, latestContent, keywordContent, response, pre,
                 pargs, col, fnt, http, resumed, pendingAtEnd>>

(***************************************************************************)
(* index.ts: the end of the handler.                                       *)
(***************************************************************************)
RECURSIVE Serialized(_)
\* What the client reads back from Response.json(v): JSON.stringify leaves
\* out the properties whose value is undefined.
Serialized(v) ==
  IF v.t = "object"
  THEN Obj([k \in {k \in DOMAIN v.o : v.o[k] # Undef} |-> Serialized(v.o[k])])
  ELSE IF v.t = "array"
  THEN Arr([j \in DOMAIN v.a |-> IF v.a[j] = Undef THEN Null ELSE Serialized(v.a[j])])
  ELSE v

\* Variant of BuildResponse: the color result is tested like the font and
\* layout results (!imageResult instead of !imageResult.ok).
BuildResponseImageNotChecked(imageResult, fontRes, layoutRes, textRes) ==
  IF Falsy(imageResult) THEN handleError(Null, "Image processing")
  ELSE IF Falsy(fontRes) THEN handleError(Null, "Font processing")
  ELSE IF Falsy(layoutRes) THEN handleError(Null, "Layout processing")
  ELSE JsonResponse(Serialized(Obj(
         [type |-> Str("ui_update"),
          content |-> textRes,
          ui_changes |-> Obj(Spread(Spread(OwnProps(Get(Get(imageResult, "value"), "ui_changes")),
                                           OwnProps(Get(fontRes, "ui_changes"))),
                                    OwnProps(layoutRes))),
          css |-> Get(fontRes, "css")])))

\* Lines 35-48: the response made of the four results.
BuildResponse(imageResult, fontRes, layoutRes, textRes) ==
  IF ~IsOk(imageResult) THEN handleError(Get(imageResult, "error"), "Image processing")
  ELSE IF Falsy(fontRes) THEN handleError(Null, "Font processing")
  ELSE IF Falsy(layoutRes) THEN handleError(Null, "Layout processing")
  ELSE JsonResponse(Serialized(Obj(
         [type |-> Str("ui_update"),
          content |-> textRes,
          ui_changes |-> Obj(Spread(Spread(OwnProps(Get(Get(imageResult, "value"), "ui_changes")),
                                           OwnProps(Get(fontRes, "ui_changes"))),
                                    OwnProps(layoutRes))),
          css |-> Get(fontRes, "css")])))

\* Lines 28-48: Promise.all has an outcome and the handler ends.
AfterAll ==
  /\ hpc = "await_all"
  /\ AllSettledOrRejected
  /\ IF \E p \in Pipelines : pst[p] = "rejected"
     THEN \E p \in Pipelines : pst[p] = "rejected" /\ Finish(Rejected(pres[p]))
     ELSE Finish(BuildResponse(pres["color"], pres["font"], pres["layout"], pres["text"]))
  /\ UNCHANGED unitVars
  /\ UNCHANGED <<apiKey, body, latest, latestContent, keywordContent, pre, pst, pres,
                 pargs, col, fnt, http, resumed>>

Next ==
  \/ Receive
  \/ PreprocessResume
  \/ AfterPreprocess
  \/ CallColor
  \/ CallFont
  \/ CallLayout
  \/ CallText
  \/ ColorScrapeResume
  \/ ColorImagesResume
  \/ ColorStitchResume
  \/ ColorBase64Resume
  \/ ColorPaletteResume
  \/ FontNameResume
  \/ FontMetaPrimaryResume
  \/ FontMetaFallbackResume
  \/ FontCssPrimaryResume
  \/ FontCssFallbackResume
  \/ FontVarsResume
  \/ LayoutResume
  \/ TextResume
  \/ AfterAll

Spec == Init /\ [][Next]_vars

TypeOK ==
  /\ hpc \in {"received", "await_preprocess", "call_color", "call_font", "call_layout",
              "call_text", "await_all", "done"}
  /\ response.kind \in {"none", "json", "rejected"}
  /\ pendingAtEnd \subseteq Pipelines

(***************************************************************************)
(* Properties of the handler.                                              *)
(***************************************************************************)
\* The handler has returned a JSON response of the given type.
Responded(type) ==
  /\ response.kind = "json"
  /\ Get(response.body, "type") = Str(type)
\* The handler has returned handleError(_, context).
RespondedError(context) ==
  /\ Responded("error")
  /\ Get(Get(response.body, "content"), "context") = Str(context)
\* The promise of pipeline p is fulfilled with a failed Result.
FailedResult(p) == pst[p] = "fulfilled" /\ ~IsOk(pres[p])
\* The promise of pipeline p is fulfilled with an ok Result.
OkResult(p) == pst[p] = "fulfilled" /\ IsOk(pres[p])
\* The handler ended after Promise.all fulfilled.
EndedAfterAll == hpc = "done" /\ \A p \in Pipelines : pst[p] = "fulfilled"

\* C1: every request (with a JSON body) ends with one JSON response of type
\* "ui_update" or "error", never with a rejected promise, whatever pipelines fail.
C1_AlwaysResponds ==
  hpc = "done" /\ body # BadJson => Responded("ui_update") \/ Responded("error")

\* C2: no fanned-out pipeline is started before preprocessPipeline has completed.
C2_FanOutAfterPreprocess ==
  \A p \in Pipelines :
    pst[p] # "idle" \/ pargs[p] # Undef \/ hpc \in {"call_font", "call_layout", "call_text", "await_all"}
      => pre.st = "fulfilled"
\* C2 witness: keyword extraction made its LLM call and completed, and the
\* color pipeline was then started with the keywords.
C2_Witness ==
  /\ http["keywords"] = 1
  /\ pre.st = "fulfilled"
  /\ pst["color"] = "scrape"
  /\ pargs["color"] = Arr(<<TextItem("mario")>>)

\* C3: the handler does not end before all four pipelines have settled.
C3_EndsAfterAllSettled ==
  hpc = "done" => pendingAtEnd = {}

\* C4: all four pipelines are started before the handler waits for any of
\* them: while one is not yet started none has resumed from an await, and
\* when the handler waits all four are started.
C4_AllStartedBeforeWaiting ==
  /\ (\E p \in Pipelines : pst[p] = "idle") => resumed = {}
  /\ hpc = "await_all" => \A p \in Pipelines : pst[p] # "idle"
\* C4 witness: the external calls of all four pipelines are outstanding at
\* the same time.
C4_Witness ==
  /\ hpc = "await_all"
  /\ pst = [p \in Pipelines |-> CASE p = "color" -> "scrape" [] p = "font" -> "name"
                                  [] OTHER -> "llm"]
  /\ http["bing"] = 1 /\ http["fontname"] = 1 /\ http["layout"] = 1 /\ http["text"] = 1

\* The ui_changes map of the ui_update response.
ResponseUiChanges == OwnProps(Get(response.body, "ui_changes"))
\* The ui_changes map the Result of pipeline p carries.
PipelineMap(p) == OwnProps(Get(Get(pres[p], "value"), "ui_changes"))
AllThreeOk == OkResult("color") /\ OkResult("font") /\ OkResult("layout")

\* C5: ui_changes of a ui_update response is the color map overlaid with the
\* font map and then with the layout map.
C5_OverlayOrder ==
  Responded("ui_update") /\ AllThreeOk =>
    ResponseUiChanges = Spread(Spread(PipelineMap("color"), PipelineMap("font")), PipelineMap("layout"))

\* C6: when color, font and layout succeed, every color variable, the six
\* font variables and the twelve layout variables are top-level keys of
\* ui_changes, and css is the CSS the font pipeline fetched.
C6_FlatMapAndCss ==
  Responded("ui_update") /\ AllThreeOk =>
    /\ DOMAIN PipelineMap("color") \subseteq DOMAIN ResponseUiChanges
    /\ FontKeys \subseteq DOMAIN ResponseUiChanges
    /\ LayoutKeys \subseteq DOMAIN ResponseUiChanges
    /\ Get(response.body, "css") = fnt.css

\* C7: when the color pipeline returns a failed Result and no pipeline
\* throws, the response is the "Image processing" error, not a ui_update.
C7_ColorFailureIsError ==
  EndedAfterAll /\ FailedResult("color") => RespondedError("Image processing")
\* C7 witness: the palette request failed and the handler answered.
C7_Witness ==
  /\ EndedAfterAll
  /\ http["palette"] = 1
  /\ Get(Get(pres["color"], "error"), "type") = Str("PaletteError")
  /\ RespondedError("Image processing")

\* C8: when the font or the layout pipeline returns a failed Result, the
\* response is of type "error", not a ui_update.
C8_FontOrLayoutFailureIsError ==
  EndedAfterAll /\ (FailedResult("font") \/ FailedResult("layout")) => Responded("error")

\* The value at the path "messages" is a valid chat message.
ValidMessage(m) ==
  /\ m.t = "object"
  /\ "role" \in DOMAIN m.o /\ m.o["role"].t = "string"
  /\ "content" \in DOMAIN m.o
  /\ \/ m.o["content"].t = "string"
     \/ /\ m.o["content"].t = "array"
        /\ \A j \in DOMAIN m.o["content"].a :
             LET c == m.o["content"].a[j]
             IN c.t = "object" /\ "type" \in DOMAIN c.o /\ c.o["type"].t = "string"
\* The JSON body b has no valid chat messages at the path "messages".
NoValidMessages(b) ==
  \/ b.t # "object"
  \/ "messages" \notin DOMAIN b.o
  \/ LET m == b.o["messages"]
     IN IF m.t = "array"
        THEN m.a = <<>> \/ \E i \in DOMAIN m.a : ~ValidMessage(m.a[i])
        ELSE ~ValidMessage(m)

C10_MissingApiKey ==
  apiKey \in {Undef, Str("")} =>
    /\ \A k \in LlmKinds : http[k] = 0
    /\ pre.st \in Settled /\ Get(latest, "role") = Str("user")
         => pre.st = "rejected" /\ pre.val = AppError("MissingApiKey")
    /\ pst["layout"] = "fulfilled" => pres["layout"] = err(AppError("MissingApiKey"))
    /\ pst["text"] \in Settled => pst["text"] = "rejected" /\ pres["text"] = AppError("MissingApiKey")
    /\ pst["font"] \in Settled => pres["font"] = err(AppError("MissingApiKey"))
\* C10 witness: sendChatRequest was called with an empty key by the layout
\* pipeline and returned.
C10_Witness ==
  /\ apiKey = Str("")
  /\ pst["layout"] = "fulfilled"
  /\ pargs["layout"] # Undef

(***************************************************************************)
(* chat.ts on its own: one call of sendChatRequest whose Result is given   *)
(* to parseChatResponse, against everything the endpoint can answer.       *)
(***************************************************************************)
\* The handler takes no part in the specifications of the units.
HandlerUnused ==
  /\ apiKey = Undef
  /\ body = Undef
  /\ hpc = "unused"
  /\ latest = Undef
  /\ latestContent = Undef
  /\ keywordContent = Undef
  /\ response = NoResponse
  /\ pre = [st |-> "idle", val |-> Undef]
  /\ pst = [p \in Pipelines |-> "idle"]
  /\ pres = [p \in Pipelines |-> Undef]
  /\ pargs = [p \in Pipelines |-> Undef]
  /\ col = Undef
  /\ fnt = Undef
  /\ http = [k \in RequestKinds |-> 0]
  /\ resumed = {}
  /\ pendingAtEnd = {}

\* The status lines the endpoint answers with.
ChatStatuses ==
  { [status |-> 200, statusText |-> "OK"],
    [status |-> 201, statusText |-> "Created"],
    [status |-> 400, statusText |-> "Bad Request"],
    [status |-> 401, statusText |-> "Unauthorized"],
    [status |-> 429, statusText |-> "Too Many Requests"],
    [status |-> 500, statusText |-> "Internal Server Error"] }
\* The contents of choices[0].message of a completion.
ChatContents ==
  { JsonText(Obj([result |-> Str("x")])), JsonText(Str("quoted")), Str("not json"),
    Str(""), Null, Num(7), Obj([result |-> Str("x")]) }
\* The bodies of an answer: envelopes, other JSON texts, texts that are not
\* JSON, and a body that cannot be read.
ChatBodies ==
  { JsonText(Envelope(c)) : c \in ChatContents }
  \cup { JsonText(Obj([id |-> Str("1"), choices |-> Arr(<<>>)])),
         JsonText(Obj([error |-> Obj([message |-> Str("quota")])])),
         JsonText(Str("error message")), JsonText(Null),
         Str("error message"), Str(""), BodyUnreadable }
ChatNetOutcomes ==
  { FetchThrew, [kind |-> "throw", message |-> "The operation timed out"] }
  \cup { HttpResponse(st.status, st.statusText, b) : st \in ChatStatuses, b \in ChatBodies }

ChatInit ==
  /\ HandlerUnused
  /\ chat \in { [pc |-> "start", apiKey |-> k, requests |-> 0, net |-> Undef,
                 sent |-> Undef, parsed |-> Undef] : k \in ApiKeys }
  /\ gcss = Unused
  /\ fx = Unused
  /\ cl = Unused

\* sendChatRequest up to its first await: it returns at once without an API
\* key, and calls fetch otherwise.
ChatCall ==
  /\ chat.pc = "start"
  /\ chat' = IF MissingApiKey(chat.apiKey)
             THEN [chat EXCEPT !.pc = "sent", !.sent = sendChatRequest(chat.apiKey, Undef)]
             ELSE [chat EXCEPT !.pc = "fetching", !.requests = @ + 1]
  /\ UNCHANGED <<handlerVars, gcss, fx, cl>>

\* The fetch settles and sendChatRequest runs to its return.
ChatFetchSettles ==
  /\ chat.pc = "fetching"
  /\ \E net \in ChatNetOutcomes :
       chat' = [chat EXCEPT !.pc = "sent", !.net = net,
                            !.sent = sendChatRequest(chat.apiKey, net)]
  /\ UNCHANGED <<handlerVars, gcss, fx, cl>>

\* parseChatResponse(await sendChatRequest(payload))
ChatParse ==
  /\ chat.pc = "sent"
  /\ chat' = [chat EXCEPT !.pc = "parsed", !.parsed = parseChatResponse(chat.sent)]
  /\ UNCHANGED <<handlerVars, gcss, fx, cl>>

ChatNext ==
  \/ ChatCall
  \/ ChatFetchSettles
  \/ ChatParse

ChatSpec == ChatInit /\ [][ChatNext]_vars

\* The endpoint answered the request of this call.
ChatAnswered == chat.pc \in {"sent", "parsed"} /\ chat.net # Undef /\ chat.net.kind = "response"
ErrorType(r) == Get(Get(r, "error"), "type")

\* C11 (as stated): a non-OK status gives an HttpError with the status, the
\* statusText and the body as detail (parsed when it is JSON, raw otherwise),
\* and an OK status gives ok with the JSON body.
C11_AsStated ==
  ChatAnswered =>
    IF ResponseOk(chat.net)
    THEN IsOk(chat.sent)
    ELSE /\ ErrorType(chat.sent) = Str("HttpError")
         /\ Get(Get(chat.sent, "error"), "status") = Num(chat.net.status)
         /\ Get(Get(chat.sent, "error"), "statusText") = Str(chat.net.statusText)

\* The body of the answer is a JSON text.
BodyIsJson(net) == net.text.t = "string" /\ "json" \in DOMAIN net.text
\* C11 (amended): when the body of the answer can be read, a non-OK status
\* gives an HttpError with the status, the statusText and as detail the value
\* the body denotes when it is JSON and the raw text otherwise; an OK status
\* whose body is JSON gives ok with the value the body denotes; an OK status
\* whose body is not JSON, and every answer whose body cannot be read, give a
\* FetchError.
C11_HttpErrorOrBody ==
  ChatAnswered =>
    IF chat.net.text = BodyUnreadable THEN ErrorType(chat.sent) = Str("FetchError")
    ELSE IF ~ResponseOk(chat.net)
    THEN chat.sent = err(Obj([type |-> Str("HttpError"),
                              status |-> Num(chat.net.status),
                              statusText |-> Str(chat.net.statusText),
                              detail |-> IF BodyIsJson(chat.net) THEN chat.net.text.json
                                         ELSE chat.net.text]))
    ELSE IF BodyIsJson(chat.net) THEN chat.sent = ok(chat.net.text.json)
    ELSE ErrorType(chat.sent) = Str("FetchError")
\* A non-OK answer whose body is JSON has been turned into an HttpError, and
\* so has one whose body is not.
C11_Witness ==
  /\ ChatAnswered
  /\ chat.net.status = 400
  /\ chat.net.text = JsonText(Obj([error |-> Obj([message |-> Str("quota")])]))
  /\ ErrorType(chat.sent) = Str("HttpError")

ChatErrorTypes == {"MissingApiKey", "HttpError", "FetchError", "NoResponseContent",
                   "InvalidResponseJson"}
\* r is one Result: ok with a value, or a failure with one of the error types.
IsChatResult(r) ==
  \/ r.t = "object" /\ DOMAIN r.o = {"ok", "value"} /\ r.o.ok = Bool(TRUE)
  \/ /\ r.t = "object" /\ DOMAIN r.o = {"ok", "error"} /\ r.o.ok = Bool(FALSE)
     /\ \E ty \in ChatErrorTypes : ErrorType(r) = Str(ty)
\* What the content c of choices[0].message is turned into.
ExpectedOfContent(c) ==
  IF c \in {Undef, Null, Str("")} THEN err(AppError("NoResponseContent"))
  ELSE IF c.t = "string" /\ "json" \in DOMAIN c THEN ok(c.json)
  ELSE IF c.t = "number" THEN ok(c)
  ELSE err(AppError("InvalidResponseJson"))

\* C12: sendChatRequest followed by parseChatResponse ends in exactly one
\* Result: MissingApiKey without an API key, FetchError when the fetch throws,
\* HttpError for a non-OK answer, NoResponseContent when the envelope has no
\* choices[0].message.content, InvalidResponseJson when the content is not
\* JSON, and ok with the parsed content otherwise; a failed Result of
\* sendChatRequest comes out of parseChatResponse unchanged.
C12_AlwaysOneResult ==
  chat.pc = "parsed" =>
    /\ IsChatResult(chat.sent)
    /\ IsChatResult(chat.parsed)
    /\ ~IsOk(chat.sent) => chat.parsed = chat.sent
    /\ chat.apiKey \in {Undef, Str("")} <=> ErrorType(chat.parsed) = Str("MissingApiKey")
    /\ chat.net # Undef =>
         /\ chat.net.kind = "throw" => ErrorType(chat.parsed) = Str("FetchError")
         /\ ErrorType(chat.parsed) = Str("HttpError") =>
              chat.net.kind = "response" /\ ~ResponseOk(chat.net)
         /\ (chat.net.kind = "response" /\ ~ResponseOk(chat.net)
             /\ chat.net.text # BodyUnreadable) => ErrorType(chat.parsed) = Str("HttpError")
         /\ (chat.net.kind = "response" /\ ResponseOk(chat.net) /\ BodyIsJson(chat.net)) =>
              IF \E c \in ChatContents : chat.net.text = JsonText(Envelope(c))
              THEN \A c \in ChatContents :
                     chat.net.text = JsonText(Envelope(c)) => chat.parsed = ExpectedOfContent(c)
              ELSE chat.parsed = err(AppError("NoResponseContent"))
\* An HttpError has gone through parseChatResponse.
C12_Witness ==
  /\ chat.pc = "parsed"
  /\ ErrorType(chat.sent) = Str("HttpError")
  /\ chat.parsed = chat.sent

(***************************************************************************)
(* fonts.ts on its own: one call of fetchGoogleFontCSS.                    *)
(***************************************************************************)
\* The URL buildGoogleFontsUrl gives for a font that is not in the metadata.
NoFamilyUrl == "https://fonts.googleapis.com/css2?&display=swap"
\* URLs fontPipeline calls fetchGoogleFontCSS with.
CssUrls ==
  { NoFamilyUrl,
    "https://fonts.googleapis.com/css2?family=Roboto:ital,wght@0,400;1,400&display=swap",
    "https://fonts.googleapis.com/css2?family=Open+Sans:ital,wght@0,300&display=swap" }
\* What one fetch of a CSS URL can do, whatever the URL.
GcssOutcomes ==
  CssOutcomes(PrimaryCss) \cup CssOutcomes(FallbackCss)
  \cup { HttpResponse(200, "OK", Str("/* font-family */")),
         HttpResponse(200, "OK", BodyUnreadable),
         HttpResponse(404, "Not Found", PrimaryCss) }
\* await response.text() rejects, outside every try block.
BodyReadRejects(net) == net.kind = "response" /\ ResponseOk(net) /\ net.text = BodyUnreadable

GcssInit ==
  /\ HandlerUnused
  /\ chat = Unused
  /\ gcss \in { [pc |-> "start", primaryUrl |-> p, fallbackUrl |-> f, requests |-> <<>>,
                 primary |-> Undef, fallback |-> Undef, result |-> Pending]
                : p \in CssUrls, f \in CssUrls }
  /\ fx = Unused
  /\ cl = Unused

\* Line 200: the fetch of the primary URL is issued.
GcssCall ==
  /\ gcss.pc = "start"
  /\ gcss' = [gcss EXCEPT !.pc = "primary", !.requests = Append(@, gcss.primaryUrl)]
  /\ UNCHANGED <<handlerVars, chat, fx, cl>>

\* Lines 201-218: the primary fetch settles; the function returns the CSS, or
\* issues the fetch of the fallback URL (line 226), or rejects.
GcssPrimarySettles ==
  /\ gcss.pc = "primary"
  /\ \E net \in GcssOutcomes :
       gcss' = IF BodyReadRejects(net)
               THEN [gcss EXCEPT !.pc = "done", !.primary = net,
                                 !.result = RejectedWith(TypeError)]
               ELSE IF CssUsable(net)
               THEN [gcss EXCEPT !.pc = "done", !.primary = net,
                                 !.result = Fulfilled(ok(net.text))]
               ELSE [gcss EXCEPT !.pc = "fallback", !.primary = net,
                                 !.requests = Append(@, gcss.fallbackUrl)]
  /\ UNCHANGED <<handlerVars, chat, fx, cl>>

\* Lines 227-242: the fallback fetch settles.
GcssFallbackSettles ==
  /\ gcss.pc = "fallback"
  /\ \E net \in GcssOutcomes :
       gcss' = IF BodyReadRejects(net)
               THEN [gcss EXCEPT !.pc = "done", !.fallback = net,
                                 !.result = RejectedWith(TypeError)]
               ELSE IF CssUsable(net)
               THEN [gcss EXCEPT !.pc = "done", !.fallback = net,
                                 !.result = Fulfilled(ok(net.text))]
               ELSE [gcss EXCEPT !.pc = "done", !.fallback = net,
                                 !.result = Fulfilled(err(AppError("FallbackFailed")))]
  /\ UNCHANGED <<handlerVars, chat, fx, cl>>

GcssNext ==
  \/ GcssCall
  \/ GcssPrimarySettles
  \/ GcssFallbackSettles

GcssSpec == GcssInit /\ [][GcssNext]_vars

\* The number of requests in log that were made for url.
RequestsFor(log, url) == Cardinality({i \in DOMAIN log : log[i] = url})
\* The attempt failed in one of the ways that make the function fall back:
\* the fetch threw, the status is not OK, the body is empty or has no
\* "font-family".
AttemptFailed(net) ==
  \/ net.kind = "throw"
  \/ net.kind = "response" /\ (net.status < 200 \/ net.status > 299)
  \/ net.kind = "response" /\ net.text = Str("")
  \/ net.kind = "response" /\ net.text \in {Str("<html>")}

C14_AlwaysResult ==
  gcss.pc = "done" =>
    /\ gcss.result.st = "fulfilled"
    /\ LET r == gcss.result.val
       IN /\ IsOk(r) \/ r = err(AppError("FallbackFailed"))
          /\ IsOk(r) => Get(r, "value") # Str("") /\ IncludesFontFamily(Get(r, "value"))
          /\ gcss.fallback = Undef => r = ok(gcss.primary.text)
          /\ (gcss.fallback # Undef /\ ~AttemptFailed(gcss.fallback)) =>
               r = ok(gcss.fallback.text)
          /\ (gcss.fallback # Undef /\ AttemptFailed(gcss.fallback)) =>
               r = err(AppError("FallbackFailed"))

(***************************************************************************)
(* fonts.ts on its own: buildGoogleFontsUrl for one font name.             *)
(***************************************************************************)
\* The characters of the font names: two cases of a letter, a letter and a
\* space.
NameChars == {"R", "r", "o", " "}
FontNames == SeqsUpTo(NameChars, MaxNameLen)
\* The familyMetadataList of the metadata: a family with regular and italic
\* fonts, one with a space in its name and italic fonts only, one without
\* fonts, and one whose weights do not sort as numbers the way they sort as
\* strings.
UrlMetadataList ==
  << Family(<<"R", "o">>, {FontKey(400, FALSE), FontKey(100, FALSE), FontKey(700, TRUE),
                           FontKey(400, TRUE)}),
     Family(<<"R", " ", "o">>, {FontKey(300, TRUE)}),
     Family(<<"o">>, {}),
     Family(<<"o", "o">>, {FontKey(1000, FALSE), FontKey(200, FALSE)}) >>
UrlMetadataOutcomes == { [kind |-> "throw"], [kind |-> "list", families |-> UrlMetadataList] }

UrlInit ==
  /\ HandlerUnused
  /\ chat = Unused
  /\ gcss = Unused
  /\ fx \in { [fn |-> "buildGoogleFontsUrl", pc |-> "start", arg |-> n, metadata |-> Undef,
               out |-> Pending] : n \in FontNames }
  /\ cl = Unused

\* Lines 99-100 and 77, 31: getFontWeights is called and fetches the metadata.
UrlCall ==
  /\ fx.pc = "start"
  /\ fx' = [fx EXCEPT !.pc = "metadata"]
  /\ UNCHANGED <<handlerVars, chat, gcss, cl>>

\* Lines 37-46, 79-155: the metadata fetch settles and the URL is built, or
\* the function rejects with what fetchGoogleFontsMetadata threw.
UrlMetadataSettles ==
  /\ fx.pc = "metadata"
  /\ \E md \in UrlMetadataOutcomes :
       fx' = [fx EXCEPT !.pc = "done", !.metadata = md,
                        !.out = IF md.kind = "throw" THEN RejectedWith(TypeError)
                                ELSE Fulfilled(buildGoogleFontsUrlOf(fx.arg, md.families))]
  /\ UNCHANGED <<handlerVars, chat, gcss, cl>>

UrlNext ==
  \/ UrlCall
  \/ UrlMetadataSettles

UrlSpec == UrlInit /\ [][UrlNext]_vars

\* Two names are equal up to the case of their letters.
SameUpToCase(a, b) ==
  /\ Len(a) = Len(b)
  /\ \A i \in DOMAIN a : a[i] = b[i] \/ {a[i], b[i]} = {"R", "r"}
\* The families of the metadata that name is the name of.
FoundFamilies(name, list) == {i \in DOMAIN list : SameUpToCase(list[i].family, name)}
\* name with "+" for each space.
PlusForSpaces(name) == Joined([i \in DOMAIN name |-> IF name[i] = " " THEN "+" ELSE name[i]])
RECURSIVE WeightsFrom(_, _)
\* The weights of S that are hundreds * 100 or more, from the smallest up.
WeightsFrom(S, hundreds) ==
  IF hundreds > 10 THEN <<>>
  ELSE (IF hundreds * 100 \in S THEN <<hundreds * 100>> ELSE <<>>)
       \o WeightsFrom(S, hundreds + 1)
\* "<ital>,<w>" for each weight of S in ascending order.
WeightPairs(S, ital) ==
  LET ws == WeightsFrom(S, 1) IN [i \in DOMAIN ws |-> ital \o "," \o ToString(ws[i])]
RECURSIVE JoinWith(_, _)
\* seq.join(sep)
JoinWith(seq, sep) ==
  IF seq = <<>> THEN ""
  ELSE IF Len(seq) = 1 THEN seq[1]
  ELSE seq[1] \o sep \o JoinWith(Tail(seq), sep)
\* The URL the claim describes for a found family with the given font keys.
ExpectedFamilyUrl(name, fonts) ==
  Str("https://fonts.googleapis.com/css2?family=" \o PlusForSpaces(name) \o ":ital,wght@"
      \o JoinWith(WeightPairs({k.weight : k \in {x \in fonts : ~x.i}}, "0")
                  \o WeightPairs({k.weight : k \in {x \in fonts : x.i}}, "1"), ";")
      \o "&display=swap")
\* A call for one font name has returned its URL.
UrlDone ==
  /\ fx.pc = "done"
  /\ fx.fn = "buildGoogleFontsUrl"
  /\ fx.metadata.kind = "list"
\* The font keys of the family the name of the call is found as.
FoundFonts ==
  LET list == fx.metadata.families
      hits == FoundFamilies(fx.arg, list)
  IN list[CHOOSE i \in hits : \A j \in hits : i <= j].fonts

\* C15 (as stated): the URL of a font that is not in the metadata (a blank
\* name included) is exactly "https://fonts.googleapis.com/css2?&display=swap";
\* the URL of a font that is found has family=<name with "+" for spaces>
\* :ital,wght@ then 0,<w> for its regular weights ascending, then 1,<w> for
\* its italic weights ascending.
C15_AsStated ==
  UrlDone =>
    IF FoundFamilies(fx.arg, fx.metadata.families) = {}
    THEN fx.out = Fulfilled(Str(NoFamilyUrl))
    ELSE fx.out = Fulfilled(ExpectedFamilyUrl(fx.arg, FoundFonts))

\* C15 (amended): the URL is exactly
\* "https://fonts.googleapis.com/css2?&display=swap" for a font that is not in
\* the metadata (a blank name included) and for a font that is found without
\* any font key; for a font that is found with at least one key it has
\* family=<name with "+" for spaces>:ital,wght@ then 0,<w> for its regular
\* weights ascending, then 1,<w> for its italic weights ascending.
C15_FamilyParameter ==
  UrlDone =>
    IF FoundFamilies(fx.arg, fx.metadata.families) = {}
    THEN fx.out = Fulfilled(Str(NoFamilyUrl))
    ELSE IF FoundFonts = {} THEN fx.out = Fulfilled(Str(NoFamilyUrl))
    ELSE fx.out = Fulfilled(ExpectedFamilyUrl(fx.arg, FoundFonts))
\* The URL of a found name written in another case and with a space in it.
C15_Witness ==
  /\ UrlDone
  /\ fx.arg = <<"r", " ", "o">>
  /\ fx.out = Fulfilled(Str("https://fonts.googleapis.com/css2?family=r+o:ital,wght@1,300&display=swap"))

(***************************************************************************)
(* fonts.ts on its own: parseGoogleFontCSS.                                *)
(***************************************************************************)
\* The @font-face blocks of the CSS texts: two families, an italic and two
\* other styles, and two weights whose order as strings is not their order as
\* numbers.
FaceFamilies == {"Roboto", "Inter"}
FaceStyles == {"normal", "italic", "oblique"}
FaceWeights == {<<"2", "0", "0">>, <<"1", "0", "0", "0">>}
FontFaces ==
  {FontFace(f, st, w) : f \in FaceFamilies, st \in FaceStyles, w \in FaceWeights}
CssTexts == SeqsUpTo(FontFaces, MaxFaces)

CssParseInit ==
  /\ HandlerUnused
  /\ chat = Unused
  /\ gcss = Unused
  /\ fx \in { [fn |-> "parseGoogleFontCSS", pc |-> "start", arg |-> css, out |-> Undef]
              : css \in CssTexts }
  /\ cl = Unused

\* parseGoogleFontCSS(cssText)
CssParseApply ==
  /\ fx.pc = "start"
  /\ fx' = [fx EXCEPT !.pc = "done", !.out = Str(parseGoogleFontCSSOf(fx.arg))]
  /\ UNCHANGED <<handlerVars, chat, gcss, cl>>

CssParseNext == CssParseApply

CssParseSpec == CssParseInit /\ [][CssParseNext]_vars

\* Every style key there can be, in sorted order: the weights alone before the
\* italic ones.
StyleKeysInOrder ==
  << [text |-> "1000", italic |-> FALSE, weight |-> <<"1", "0", "0", "0">>],
     [text |-> "200", italic |-> FALSE, weight |-> <<"2", "0", "0">>],
     [text |-> "italic 1000", italic |-> TRUE, weight |-> <<"1", "0", "0", "0">>],
     [text |-> "italic 200", italic |-> TRUE, weight |-> <<"2", "0", "0">>] >>
RECURSIVE KeysOfFamily(_, _, _)
\* The texts of the keys from position k of StyleKeysInOrder on that a block
\* of family in faces has, each once.
KeysOfFamily(faces, family, k) ==
  IF k > Len(StyleKeysInOrder) THEN <<>>
  ELSE LET key == StyleKeysInOrder[k]
           has == \E i \in DOMAIN faces :
                    /\ faces[i].fontFamily = family
                    /\ faces[i].fontWeight = key.weight
                    /\ (faces[i].fontStyle = "italic") = key.italic
       IN (IF has THEN <<key.text>> ELSE <<>>) \o KeysOfFamily(faces, family, k + 1)
\* The entry "<family>: <styles>" of a family.
EntryOf(faces, family) == family \o ": " \o JoinWith(KeysOfFamily(faces, family, 1), ", ")
\* The index of the first block of family.
FirstBlock(faces, family) ==
  CHOOSE i \in DOMAIN faces :
    faces[i].fontFamily = family /\ \A j \in 1..(i - 1) : faces[j].fontFamily # family
\* The summary the claim describes for the blocks faces, of one or two families.
ExpectedSummary(faces) ==
  LET fams == {faces[i].fontFamily : i \in DOMAIN faces}
  IN IF fams = {} THEN ""
     ELSE LET first == CHOOSE f \in fams : \A g \in fams : FirstBlock(faces, f) <= FirstBlock(faces, g)
          IN IF fams = {first} THEN EntryOf(faces, first)
             ELSE LET second == CHOOSE g \in fams : g # first
                  IN EntryOf(faces, first) \o " | " \o EntryOf(faces, second)

\* C16: the summary parseGoogleFontCSS returns has, for each family of an
\* @font-face block, one entry "<family>: <styles>" with every distinct style
\* key of the family once (the weight alone when the style is not italic,
\* "italic <weight>" when it is), in sorted order with the weights alone before
\* the italic ones, the entries joined by " | "; a repeated block adds nothing.
C16_SummaryOfFaces ==
  (fx.pc = "done" /\ fx.fn = "parseGoogleFontCSS") => fx.out = Str(ExpectedSummary(fx.arg))
\* The summary of a text with a repeated italic block and a regular one after it.
C16_Witness ==
  /\ fx.pc = "done"
  /\ fx.fn = "parseGoogleFontCSS"
  /\ fx.arg = << FontFace("Roboto", "italic", <<"2", "0", "0">>),
                 FontFace("Roboto", "normal", <<"1", "0", "0", "0">>),
                 FontFace("Roboto", "italic", <<"2", "0", "0">>) >>
  /\ fx.out = Str("Roboto: 1000, italic 200")

(***************************************************************************)
(* images.ts on its own: scrapeBingImages.                                 *)
(***************************************************************************)
\* The m attributes of the anchors of a page: two results with an image URL,
\* no attribute, one that is not JSON, JSON without murl, and JSON null.
MAttrs ==
  { MAttr("https://img.example/a.jpg"), MAttr("https://img.example/b.jpg"),
    Null, Str("{murl"), JsonText(Obj([turl |-> Str("https://img.example/t.jpg")])),
    JsonText(Null) }
ScrapePages == {PageThrew} \cup {HtmlPage(a) : a \in SeqsUpTo(MAttrs, MaxAnchors)}

ScrapeInit ==
  /\ HandlerUnused
  /\ chat = Unused
  /\ gcss = Unused
  /\ fx \in { [fn |-> "scrapeBingImages", pc |-> "start", arg |-> n, page |-> Undef,
               out |-> Pending] : n \in 0..MaxRequested }
  /\ cl = Unused

\* Lines 111-120: the results page is fetched.
ScrapeCall ==
  /\ fx.pc = "start"
  /\ fx' = [fx EXCEPT !.pc = "fetching"]
  /\ UNCHANGED <<handlerVars, chat, gcss, cl>>

\* Lines 121-151: the fetch settles and the function returns.
ScrapePageSettles ==
  /\ fx.pc = "fetching"
  /\ \E page \in ScrapePages :
       fx' = [fx EXCEPT !.pc = "done", !.page = page,
                        !.out = Fulfilled(scrapeBingImages(page, fx.arg))]
  /\ UNCHANGED <<handlerVars, chat, gcss, cl>>

ScrapeNext ==
  \/ ScrapeCall
  \/ ScrapePageSettles

ScrapeSpec == ScrapeInit /\ [][ScrapeNext]_vars

\* The anchor has metadata that parses and an murl in it.
HasImageUrl(mAttr) ==
  \E u \in {"https://img.example/a.jpg", "https://img.example/b.jpg"} : mAttr = MAttr(u)
\* The positions on the page of the results with an image URL.
ImagePositions(page) == {i \in DOMAIN page.anchors : HasImageUrl(page.anchors[i])}
\* The position of the k-th result with an image URL.
KthImage(page, k) ==
  CHOOSE i \in ImagePositions(page) :
    Cardinality({j \in ImagePositions(page) : j <= i}) = k

\* C17: scrapeBingImages(term, n) returns without throwing; when the page
\* could not be fetched or parsed it returns the empty list; otherwise it
\* returns the image URLs of the first n results that have one, in page order,
\* or of all of them when they are fewer than n; results whose metadata is
\* missing, unparsable or without murl contribute nothing.
C17_FirstNInPageOrder ==
  (fx.pc = "done" /\ fx.fn = "scrapeBingImages") =>
    /\ fx.out.st = "fulfilled"
    /\ LET urls == fx.out.val
       IN IF fx.page.kind = "throw" THEN urls = <<>>
          ELSE /\ Len(urls) <= fx.arg
               /\ Len(urls) = IF Cardinality(ImagePositions(fx.page)) < fx.arg
                              THEN Cardinality(ImagePositions(fx.page)) ELSE fx.arg
               /\ \A k \in DOMAIN urls : MAttr(urls[k]) = fx.page.anchors[KthImage(fx.page, k)]
\* One URL was asked for on a page with a result to skip and two with a URL.
C17_Witness ==
  /\ fx.pc = "done"
  /\ fx.fn = "scrapeBingImages"
  /\ fx.arg = 1
  /\ fx.page = HtmlPage(<<Str("{murl"), MAttr("https://img.example/b.jpg"),
                          MAttr("https://img.example/a.jpg")>>)
  /\ fx.out = Fulfilled(<<"https://img.example/b.jpg">>)

(***************************************************************************)
(* colorPipeline: the palette request (checked in the handler's            *)
(* specification).                                                         *)
(***************************************************************************)
\* colorPipeline has sent its palette request.
PaletteRequestSent == http["palette"] > 0
\* The images of the message content and the collage after them, each as
\* fetchToBase64 re-encodes it for the request.
SuppliedThenCollage ==
  LET urls == col.base64Images \o <<StitchedImage>>
  IN [j \in DOMAIN urls |-> fetchToBase64(urls[j])]
\* sq is made of elements of full, in the order they have in full.
IsSubsequence(sq, full) ==
  \E f \in [DOMAIN sq -> DOMAIN full] :
    /\ \A i \in DOMAIN sq : sq[i] = full[f[i]]
    /\ \A i, j \in DOMAIN sq : i < j => f[i] < f[j]
\* colorPipeline returned its value, not an error.
ColorSucceeded == pst["color"] = "fulfilled" /\ IsOk(pres["color"])

UserTexts == {"", "Mario theme"}
\* The element of a message in messagesContainer: its class and textContent.
MessageDiv(role, text) == [role |-> role, text |-> text]
\* What fetch('/api/chat') does: it rejects, or it resolves to a response with
\* an error status or an OK status.
ClientFetchOutcomes == {"throw", "http_error", "ok"}
\* What response.json() gives: it rejects, or data with a type.
ClientJsonOutcomes == {"bad_json", "text_response", "ui_update", "vision_response", "other"}
ErrorText == "Sorry, there was an error"
UnexpectedText == "Unexpected response format from AI"
ReplyText == "It's-a me!"

ClientInit ==
  /\ HandlerUnused
  /\ chat = Unused
  /\ gcss = Unused
  /\ fx = Unused
  /\ cl = [ messages |-> <<>>,       \* the .message elements of messagesContainer, in order
            typingIndicator |-> FALSE, \* typingIndicator is an element (in the container)
            visible |-> FALSE,       \* it has the class visible
            showTimers |-> 0,        \* pending 10 ms timers of showTypingIndicator
            hideTimers |-> <<>>,     \* pending 150 ms timers of hideTypingIndicator
            disabled |-> FALSE,      \* sendButton.disabled
            currentImage |-> FALSE,  \* an image is attached
            emptyState |-> TRUE,     \* the .empty-state element is in the document
            calls |-> <<>> ]         \* the calls of processMessage: [pc, posted]

\* getMessageHistory lines 239-247
getMessageHistory(messages) ==
  [i \in DOMAIN messages |->
     Obj([role |-> Str(IF messages[i].role = "user" THEN "user" ELSE "assistant"),
          content |-> Str(messages[i].text)])]
\* Lines 159-171: the content array of the new message.
NewContent(userMessage, image) ==
  (IF userMessage # "" THEN <<TextItem(userMessage)>> ELSE <<>>)
  \o (IF image THEN <<Obj([type |-> Str("image_url"),
                           image_url |-> Obj([url |-> Str(DataUrl), detail |-> Str("auto")])])>>
      ELSE <<>>)
\* showTypingIndicator lines 91-102: a present indicator is replaced.
showTypingIndicator(c) ==
  [c EXCEPT !.typingIndicator = TRUE, !.visible = FALSE, !.showTimers = @ + 1]
\* appendMessage lines 122-137 up to the end of its task: without an indicator
\* hideTypingIndicator resolves at once and the message is appended in a
\* microtask; with one, a 150 ms timer is set and the message waits for it.
appendMessage(c, role, content) ==
  IF c.typingIndicator
  THEN [c EXCEPT !.visible = FALSE,
                 !.hideTimers = Append(@, [then |-> "append", role |-> role, text |-> content])]
  ELSE [c EXCEPT !.messages = Append(@, MessageDiv(role, content))]
\* Lines 233-236
finally(c) == [c EXCEPT !.disabled = FALSE]
SetCall(c, i, pc) == [c EXCEPT !.calls[i].pc = pc]

\* imageInput change: the user attaches an image.
ClientAttachImage ==
  /\ ~cl.currentImage
  /\ Len(cl.calls) < MaxSubmits
  /\ cl' = [cl EXCEPT !.currentImage = TRUE]
  /\ UNCHANGED <<handlerVars, chat, gcss, fx>>

\* processMessage lines 145-195, up to its await of fetch, with userMessage
\* the trimmed value of the input.
processMessage(c, userMessage) ==
  IF userMessage = "" /\ ~c.currentImage
  THEN c
  ELSE LET shown == Append(c.messages, MessageDiv("user", userMessage))
           posted == Append(getMessageHistory(shown),
                            Obj([role |-> Str("user"),
                                 content |-> Arr(NewContent(userMessage, c.currentImage))]))
       IN [showTypingIndicator(c) EXCEPT
             !.disabled = TRUE,
             !.emptyState = FALSE,
             !.messages = shown,
             !.calls = Append(@, [pc |-> "fetch", posted |-> posted])]

\* The send button is clicked or Enter is pressed (lines 250-261), and
\* processMessage runs up to its await of fetch.
ClientSubmit ==
  /\ ~cl.disabled
  /\ Len(cl.calls) < MaxSubmits
  /\ \E userMessage \in UserTexts : cl' = processMessage(cl, userMessage)
  /\ UNCHANGED <<handlerVars, chat, gcss, fx>>

\* Variant of PillsInDocument: the example pills stay when the empty state
\* is removed.
PillsOutsideEmptyState(c) == TRUE

\* An example pill can be clicked: the pills are part of the .empty-state
\* element (style.css 515-536: .empty-state clips its .empty-state-examples),
\* which processMessage removes from the document (lines 153-156).
PillsInDocument(c) == c.emptyState

\* An example pill is clicked (lines 75-80): its text becomes the input and
\* processMessage runs up to its await of fetch, whatever the send button.
ClientPillClick ==
  /\ PillsInDocument(cl)
  /\ Len(cl.calls) < MaxSubmits
  /\ \E pillText \in UserTexts \ {""} : cl' = processMessage(cl, pillText)
  /\ UNCHANGED <<handlerVars, chat, gcss, fx>>

\* fetch settles (lines 195-212, 230-236).
ClientFetchSettles ==
  /\ \E i \in DOMAIN cl.calls :
       /\ cl.calls[i].pc = "fetch"
       /\ \E o \in ClientFetchOutcomes :
            cl' = CASE o = "throw" ->
                         finally(appendMessage(SetCall(cl, i, "done"), "assistant", ErrorText))
                    [] o = "http_error" ->
                         finally(appendMessage(
                           [SetCall(cl, i, "done") EXCEPT !.currentImage = FALSE],
                           "assistant", ErrorText))
                    [] o = "ok" -> [SetCall(cl, i, "json") EXCEPT !.currentImage = FALSE]
  /\ UNCHANGED <<handlerVars, chat, gcss, fx>>

\* response.json() settles (lines 212-236).
ClientJsonSettles ==
  /\ \E i \in DOMAIN cl.calls :
       /\ cl.calls[i].pc = "json"
       /\ \E ty \in ClientJsonOutcomes :
            cl' = CASE ty = "bad_json" ->
                         finally(appendMessage(SetCall(cl, i, "done"), "assistant", ErrorText))
                    [] ty \in {"text_response", "vision_response"} ->
                         finally(appendMessage(SetCall(cl, i, "done"), "assistant", ReplyText))
                    [] ty = "other" ->
                         finally(appendMessage(SetCall(cl, i, "done"), "assistant", UnexpectedText))
                    [] ty = "ui_update" ->
                         IF cl.typingIndicator
                         THEN [SetCall(cl, i, "hiding") EXCEPT
                                 !.visible = FALSE,
                                 !.hideTimers = Append(@, [then |-> "update", call |-> i])]
                         ELSE finally(appendMessage(SetCall(cl, i, "done"), "assistant", ReplyText))
  /\ UNCHANGED <<handlerVars, chat, gcss, fx>>

\* The oldest 150 ms timer of hideTypingIndicator fires (lines 109-115): the
\* indicator of that moment is removed, and what awaited the promise goes on:
\* appendMessage appends its message (lines 131-136), or processMessage
\* updates the theme, appends the reply and ends (lines 219-224, 233-236).
ClientHideTimerFires ==
  /\ cl.hideTimers # <<>>
  /\ LET t == Head(cl.hideTimers)
         c == [cl EXCEPT !.hideTimers = Tail(@), !.typingIndicator = FALSE, !.visible = FALSE]
     IN cl' = IF t.then = "append"
              THEN [c EXCEPT !.messages = Append(@, MessageDiv(t.role, t.text))]
              ELSE finally(appendMessage(SetCall(c, t.call, "done"), "assistant", ReplyText))
  /\ UNCHANGED <<handlerVars, chat, gcss, fx>>

\* A 10 ms timer of showTypingIndicator fires (line 100); without an
\* indicator its callback throws and nothing changes.
ClientShowTimerFires ==
  /\ cl.showTimers > 0
  /\ cl' = [cl EXCEPT !.showTimers = @ - 1, !.visible = cl.typingIndicator]
  /\ UNCHANGED <<handlerVars, chat, gcss, fx>>

ClientNext ==
  \/ ClientAttachImage
  \/ ClientSubmit
  \/ ClientPillClick
  \/ ClientFetchSettles
  \/ ClientJsonSettles
  \/ ClientHideTimerFires
  \/ ClientShowTimerFires

ClientSpec == ClientInit /\ [][ClientNext]_vars

\* The /api/chat request of a call is outstanding.
RequestOutstanding == \E i \in DOMAIN cl.calls : cl.calls[i].pc = "fetch"

\* C19: while the /api/chat request of a submitted message is outstanding, the
\* typing indicator is in the messages container.
C19_IndicatorWhileOutstanding == RequestOutstanding => cl.typingIndicator

\* C20: when processMessage posts its request, the messages array has one
\* element for each message shown in the container, in display order, the
\* last of them for the message just submitted.
C20_EachMessageOnce ==
  [][\A i \in DOMAIN cl'.calls :
       i \notin DOMAIN cl.calls =>
         /\ Len(cl'.calls[i].posted) = Len(cl'.messages)
         /\ \A j \in DOMAIN cl'.messages :
              Get(cl'.calls[i].posted[j], "role") = Str(cl'.messages[j].role)]_vars

(***************************************************************************)
(* colorPipeline: the search-result images (checked in the handler's       *)
(* specification).                                                         *)
(***************************************************************************)
\* colorPipeline ended without a value: it returned an error or it threw.
ColorFailed == pst["color"] = "rejected" \/ FailedResult("color")
\* colorPipeline failed on its images: stitchHorizontally returned its error
\* (lines 286-287) or the encoding of the collage threw (line 289).
ColorFailedOnImages ==
  \/ FailedResult("color") /\ Get(Get(pres["color"], "error"), "type") = Str("StitchingError")
  \/ pst["color"] = "rejected" /\ pres["color"] = Obj([type |-> Str("Error")])
\* sendPaletteRequest was called (line 300).
PaletteExtractionStarted == http["base64"] > 0

\* C21: a search-result image whose fetch or downsample failed is dropped and
\* the others are stitched and sent for palette extraction: colorPipeline
\* fails on its images only when no search-result image was obtained, and
\* then it returns the StitchingError of an empty list and no palette request
\* is made.
C21_FailsOnlyWithoutImages ==
  ColorFailedOnImages =>
    /\ col.buffers = <<>>
    /\ pres["color"] = StitchingError("No buffers to stitch.")
    /\ ~PaletteExtractionStarted
    /\ ~PaletteRequestSent

(***************************************************************************)
(* images.ts: downsample(buffer, maxDimension).  An image is known by the  *)
(* width and height sharp reads from it; a side of 0 stands for a side the *)
(* metadata does not give.                                                 *)
(***************************************************************************)
\* The largest side of an input image.
MaxSide == 7
\* The largest maxDimension asked for.
MaxDimension == 3
\* A buffer holding an image of the given size.
ImageBuffer(data, width, height) ==
  [t |-> "buffer", data |-> data, width |-> width, height |-> height]
\* Math.min of two positive fractions <<numerator, denominator>>.
MinFraction(a, b) == IF a[1] * b[2] <= b[1] * a[2] THEN a ELSE b
\* Math.round(n * fraction) for n >= 0: halves round up.
Round(n, fraction) == (2 * n * fraction[1] + fraction[2]) \div (2 * fraction[2])
\* Lines 185-187: the size given to resize.
TargetSize(w, h, maxDimension) ==
  LET scale == MinFraction(<<maxDimension, w>>, <<maxDimension, h>>)
  IN [newWidth |-> Round(w, scale), newHeight |-> Round(h, scale)]
DownsampleError == err(AppErrorDetail("DownsampleError", Str("Error")))
MissingMetadata == err(AppErrorDetail("MissingMetadata", Str("(width/height)")))

DownsampleInit ==
  /\ HandlerUnused
  /\ chat = Unused
  /\ gcss = Unused
  /\ fx \in { [fn |-> "downsample", pc |-> "start", buffer |-> ImageBuffer("original", w, h),
               maxDimension |-> d, target |-> Undef, out |-> Pending]
              : w \in 0..MaxSide, h \in 0..MaxSide, d \in 1..MaxDimension }
  /\ cl = Unused

\* Lines 167-169: downsample runs up to the await of image.metadata().
DownsampleCall ==
  /\ fx.fn = "downsample"
  /\ fx.pc = "start"
  /\ fx' = [fx EXCEPT !.pc = "metadata"]
  /\ UNCHANGED <<handlerVars, chat, gcss, cl>>

\* Lines 169-191 and 194-196: metadata() throws or gives the size; downsample
\* returns, or runs up to the await of the resize.
DownsampleMetadataSettles ==
  /\ fx.fn = "downsample"
  /\ fx.pc = "metadata"
  /\ \E threw \in BOOLEAN :
       LET w == fx.buffer.width
           h == fx.buffer.height
       IN IF threw
          THEN fx' = [fx EXCEPT !.pc = "done", !.out = Fulfilled(DownsampleError)]
          ELSE IF w = 0 \/ h = 0
          THEN fx' = [fx EXCEPT !.pc = "done", !.out = Fulfilled(MissingMetadata)]
          ELSE IF w <= fx.maxDimension /\ h <= fx.maxDimension
          THEN fx' = [fx EXCEPT !.pc = "done", !.out = Fulfilled(ok(fx.buffer))]
          ELSE fx' = [fx EXCEPT !.pc = "resize", !.target = TargetSize(w, h, fx.maxDimension)]
  /\ UNCHANGED <<handlerVars, chat, gcss, cl>>

\* Lines 189-196: the resize throws or gives the resized image.
DownsampleResizeSettles ==
  /\ fx.fn = "downsample"
  /\ fx.pc = "resize"
  /\ \E threw \in BOOLEAN :
       fx' = [fx EXCEPT !.pc = "done",
                        !.out = IF threw THEN Fulfilled(DownsampleError)
                                ELSE Fulfilled(ok(ImageBuffer("resized", fx.target.newWidth,
                                                              fx.target.newHeight)))]
  /\ UNCHANGED <<handlerVars, chat, gcss, cl>>

DownsampleNext ==
  \/ DownsampleCall
  \/ DownsampleMetadataSettles
  \/ DownsampleResizeSettles

DownsampleSpec == DownsampleInit /\ [][DownsampleNext]_vars

\* The metadata of the image was read and gave a width and a height.
DownsampleHasSize ==
  /\ fx.pc \in {"resize", "done"}
  /\ fx.out # Fulfilled(DownsampleError) \/ fx.target # Undef
  /\ fx.buffer.width > 0
  /\ fx.buffer.height > 0
\* The larger of two numbers.
Larger(a, b) == IF a >= b THEN a ELSE b

\* C22: downsample returns the input buffer unchanged when width and height
\* are both at most maxDimension; otherwise both sides of the target size it
\* computes are between 1 and maxDimension and the larger side is
\* maxDimension.
C22_TargetSize ==
  DownsampleHasSize =>
    IF fx.buffer.width <= fx.maxDimension /\ fx.buffer.height <= fx.maxDimension
    THEN fx.pc = "done" /\ fx.out = Fulfilled(ok(fx.buffer)) /\ fx.target = Undef
    ELSE /\ fx.target.newWidth \in 1..fx.maxDimension
         /\ fx.target.newHeight \in 1..fx.maxDimension
         /\ Larger(fx.target.newWidth, fx.target.newHeight) = fx.maxDimension

(***************************************************************************)
(* images.ts: stitchHorizontally(buffers).  The buffers are images sharp   *)
(* gives a width and a height for, as downsample lets through.             *)
(***************************************************************************)
\* The largest number of buffers to stitch.
MaxStitched == 3
\* The largest side of a buffer to stitch.
MaxStitchSide == 3
StitchBuffers ==
  { ImageBuffer("original", w, h) : w \in 1..MaxStitchSide, h \in 1..MaxStitchSide }
RECURSIVE TotalWidth(_)
\* Line 209: images.reduce((sum, img) => sum + (img.width || 0), 0).
TotalWidth(images) ==
  IF images = <<>> THEN 0 ELSE TotalWidth(SubSeq(images, 1, Len(images) - 1))
                               + images[Len(images)].width
RECURSIVE MaxHeightOf(_)
\* Line 210: Math.max(...images.map(img => img.height || 0)) of a non-empty list.
MaxHeightOf(images) ==
  IF Len(images) = 1 THEN images[1].height
  ELSE Larger(images[1].height, MaxHeightOf(Tail(images)))
\* Variant of NextLeft: the images are put one pixel apart whatever their width.
NextLeftByOne(currentLeft, image) == currentLeft + 1

\* Line 230: currentLeft += images[i].width || 0.
NextLeft(currentLeft, image) == currentLeft + image.width
RECURSIVE CompositeLoop(_, _, _, _, _)
\* Lines 224-231: the for loop from index i on.
CompositeLoop(buffers, i, currentLeft, maxHeight, compositeArray) ==
  IF i > Len(buffers) THEN compositeArray
  ELSE CompositeLoop(buffers, i + 1, NextLeft(currentLeft, buffers[i]), maxHeight,
                     Append(compositeArray,
                            [input |-> buffers[i],
                             left |-> currentLeft,
                             top |-> (maxHeight - buffers[i].height) \div 2]))
\* Lines 209-234: the image stitchHorizontally describes.
Stitched(buffers) ==
  [create |-> [width |-> TotalWidth(buffers), height |-> MaxHeightOf(buffers)],
   composite |-> CompositeLoop(buffers, 1, 0, MaxHeightOf(buffers), <<>>)]

StitchInit ==
  /\ HandlerUnused
  /\ chat = Unused
  /\ gcss = Unused
  /\ fx \in { [fn |-> "stitchHorizontally", pc |-> "start", buffers |-> b, out |-> Pending]
              : b \in SeqsUpTo(StitchBuffers, MaxStitched) }
  /\ cl = Unused

\* Lines 202-207: stitchHorizontally returns for an empty list, or runs up to
\* the await of the metadata.
StitchCall ==
  /\ fx.fn = "stitchHorizontally"
  /\ fx.pc = "start"
  /\ IF Len(fx.buffers) = 0
     THEN fx' = [fx EXCEPT !.pc = "done",
                           !.out = Fulfilled(StitchingError("No buffers to stitch."))]
     ELSE fx' = [fx EXCEPT !.pc = "metadata"]
  /\ UNCHANGED <<handlerVars, chat, gcss, cl>>

\* Lines 207-237: a metadata() throws, or the image is described.
StitchMetadataSettles ==
  /\ fx.fn = "stitchHorizontally"
  /\ fx.pc = "metadata"
  /\ \E threw \in BOOLEAN :
       fx' = [fx EXCEPT !.pc = "done",
                        !.out = IF threw THEN Fulfilled(StitchingError("Stitching error"))
                                ELSE Fulfilled(ok(Stitched(fx.buffers)))]
  /\ UNCHANGED <<handlerVars, chat, gcss, cl>>

StitchNext ==
  \/ StitchCall
  \/ StitchMetadataSettles

StitchSpec == StitchInit /\ [][StitchNext]_vars

\* stitchHorizontally returned the description of an image.
StitchDone == fx.pc = "done" /\ IsOk(fx.out.val)
\* The sum of the widths of the first n buffers.
WidthsBefore(buffers, n) == TotalWidth(SubSeq(buffers, 1, n))
\* The pixel columns and rows the piece c covers.
Columns(c) == c.left .. (c.left + c.input.width - 1)
Rows(c) == c.top .. (c.top + c.input.height - 1)

\* C23: stitchHorizontally of an empty list returns a StitchingError; for a
\* non-empty list the canvas it creates is as wide as the images together and
\* as high as the highest, image i is placed at left = the sum of the widths
\* before it and top = floor((maxHeight - height_i) / 2), so the images come
\* left to right in input order, no two overlap and each lies inside the
\* canvas.
C23_StitchGeometry ==
  /\ fx.pc = "done" /\ fx.buffers = <<>> =>
       fx.out = Fulfilled(StitchingError("No buffers to stitch."))
  /\ StitchDone =>
       LET buffers == fx.buffers
           canvas == Get(fx.out.val, "value").create
           pieces == Get(fx.out.val, "value").composite
           maxHeight == CHOOSE m \in { buffers[i].height : i \in DOMAIN buffers } :
                          \A i \in DOMAIN buffers : buffers[i].height <= m
       IN /\ buffers # <<>>
          /\ canvas.width = WidthsBefore(buffers, Len(buffers))
          /\ canvas.height = maxHeight
          /\ Len(pieces) = Len(buffers)
          /\ \A i \in DOMAIN pieces :
               /\ pieces[i].input = buffers[i]
               /\ pieces[i].left = WidthsBefore(buffers, i - 1)
               /\ 2 * pieces[i].top \in {maxHeight - buffers[i].height,
                                         maxHeight - buffers[i].height - 1}
               /\ Columns(pieces[i]) \subseteq 0 .. (canvas.width - 1)
               /\ Rows(pieces[i]) \subseteq 0 .. (canvas.height - 1)
          /\ \A i, j \in DOMAIN pieces :
               i < j => \A x \in Columns(pieces[i]), y \in Columns(pieces[j]) : x < y
\* Three images of different heights were stitched, the lowest of them in
\* the middle.
C23_Witness ==
  /\ StitchDone
  /\ Len(fx.buffers) = 3
  /\ fx.buffers[1].height = 2
  /\ fx.buffers[2].height = 1
  /\ fx.buffers[3].height = 3
  /\ Get(fx.out.val, "value").composite[2].top = 1
  /\ Get(fx.out.val, "value").composite[3].left = fx.buffers[1].width + fx.buffers[2].width

(***************************************************************************)
(* fontPipeline: the order of its steps (checked in the handler's          *)
(* specification).                                                         *)
(***************************************************************************)
\* The awaits of fontPipeline in the order of its code.
FontStages ==
  <<"idle", "name", "meta_primary", "meta_fallback", "css_primary", "css_fallback", "vars">>
\* The position of a stage in FontStages.
StageRank(s) == CHOOSE i \in DOMAIN FontStages : FontStages[i] = s
\* The requests of fontPipeline and the stages that wait for them.
FontRequestStages ==
  [fontname |-> {"name"}, metadata |-> {"meta_primary", "meta_fallback"},
   css_primary |-> {"css_primary"}, css_fallback |-> {"css_fallback"}, fontvars |-> {"vars"}]
\* What a step of fontPipeline from stage s to stage t respects.
FontStepInOrder(s, t) ==
  \* it goes forward, one await at a time (the fallback fetch can be skipped)
  /\ t \notin Settled =>
       \/ StageRank(t) = StageRank(s) + 1
       \/ s = "css_primary" /\ t = "vars"
  \* a request is made only on entering the stage that waits for it
  /\ \A k \in DOMAIN FontRequestStages :
       http'[k] # http[k] => t \in FontRequestStages[k] /\ http'[k] = http[k] + 1
  \* a failed font-name request is returned and nothing was requested after it
  /\ s = "name" /\ t \in Settled =>
       /\ t = "fulfilled"
       /\ ~IsOk(pres'["font"])
       /\ \A k \in DOMAIN FontRequestStages \ {"fontname"} : http'[k] = 0
  \* a failed CSS fetch is returned and no font-variables request is made
  /\ s = "css_fallback" /\ t \in Settled =>
       /\ t = "fulfilled"
       /\ pres'["font"] = err(AppError("FallbackFailed"))
       /\ http'["fontvars"] = 0
  \* the font-variables request gets the summary of the CSS just fetched
  /\ t = "vars" =>
       /\ fnt'.css = (IF s = "css_primary" THEN PrimaryCss ELSE FallbackCss)
       /\ fnt'.fontString = parseGoogleFontCSS(fnt'.css)

PreprocessedUser == pre.st # "idle" /\ Get(latest, "role") = Str("user")
\* preprocessPipeline was called with latest, a message with another role.
PreprocessedOther == pre.st # "idle" /\ Get(latest, "role") # Str("user")

\* C25: for a message with role "user" preprocessPipeline returns a message
\* with the same role whose content is exactly one text item holding the
\* extracted keywords, without the image items of the original content; for
\* a message with any other role it returns the message unchanged and makes
\* no LLM call.
C25_PreprocessResult ==
  /\ PreprocessedUser /\ pre.st = "fulfilled" =>
       /\ Get(pre.val, "role") = Str("user")
       /\ Get(pre.val, "content") = Arr(<<TextItem(Get(GoodReply("keywords"), "keywords").s)>>)
       /\ DOMAIN pre.val.o = DOMAIN latest.o
  /\ PreprocessedOther =>
       /\ pre = Fulfilled(latest)
       /\ http["keywords"] = 0
\* The keywords of a user message with a text and an image were extracted.
C25_Witness ==
  /\ PreprocessedUser
  /\ pre.st = "fulfilled"
  /\ Get(latest, "content") = Arr(<<TextItem("Mario theme"), ImageItemObj(DataUrl)>>)
  /\ Get(pre.val, "content") = Arr(<<TextItem("mario")>>)
  /\ http["keywords"] = 1

(***************************************************************************)
(* chat.ts: parseChatMessages(input, path), and the handler's use of its   *)
(* result.                                                                 *)
(***************************************************************************)
\* The paths parseChatMessages is called with: the handler's, and none.
ParsePaths == {<<"messages">>, <<>>}

ParseInit ==
  /\ HandlerUnused
  /\ chat = Unused
  /\ gcss = Unused
  /\ fx \in { [fn |-> "parseChatMessages", pc |-> "start", input |-> b, path |-> p,
               out |-> Undef, latest |-> Undef]
              : b \in Bodies \ {BadJson}, p \in ParsePaths }
  /\ cl = Unused

\* parseChatMessages(input, path)
ParseApply ==
  /\ fx.fn = "parseChatMessages"
  /\ fx.pc = "start"
  /\ fx' = [fx EXCEPT !.pc = "parsed", !.out = parseChatMessages(fx.input, fx.path)]
  /\ UNCHANGED <<handlerVars, chat, gcss, cl>>

\* Handler lines 23-25: an error is answered, otherwise latest is the last
\* element of the messages.
ParseTakeLatest ==
  /\ fx.fn = "parseChatMessages"
  /\ fx.pc = "parsed"
  /\ IF ~IsOk(fx.out)
     THEN fx' = [fx EXCEPT !.pc = "error"]
     ELSE fx' = [fx EXCEPT !.pc = "latest",
                           !.latest = OptIdx(Get(fx.out, "value"),
                                             Len(Get(fx.out, "value").a) - 1)]
  /\ UNCHANGED <<handlerVars, chat, gcss, cl>>

ParseNext ==
  \/ ParseApply
  \/ ParseTakeLatest

ParseSpec == ParseInit /\ [][ParseNext]_vars

\* The input messages: what is at the path, as a list; none when the path
\* cannot be resolved.
InputMessages ==
  LET target == IF fx.path = <<>> THEN fx.input
                ELSE IF fx.input.t = "object" /\ "messages" \in DOMAIN fx.input.o
                THEN fx.input.o["messages"] ELSE Undef
  IN IF fx.path # <<>> /\ target = Undef THEN <<>>
     ELSE IF target.t = "array" THEN target.a ELSE <<target>>
\* The message parseChatMessages makes of the valid message m.
ParsedMessage(m) ==
  Message(m.o["role"].s,
          IF m.o["content"].t = "string" THEN Arr(<<TextItem(m.o["content"].s)>>)
          ELSE m.o["content"])
\* v is a message with a string role and a content array of objects with a
\* string type.
WellFormedMessage(v) ==
  /\ v.t = "object"
  /\ DOMAIN v.o = {"role", "content"}
  /\ v.o["role"].t = "string"
  /\ v.o["content"].t = "array"
  /\ \A j \in DOMAIN v.o["content"].a :
       LET c == v.o["content"].a[j]
       IN c.t = "object" /\ "type" \in DOMAIN c.o /\ c.o["type"].t = "string"

\* C26: parseChatMessages returns ok only with a non-empty list that has one
\* well-formed message for each input message, in input order, string content
\* wrapped as one text item; when the path cannot be resolved, the list is
\* empty or a message is invalid it returns InvalidChatMessages and no
\* messages; so the handler's latest message is always defined.
C26_ParsedMessages ==
  /\ fx.pc # "start" =>
       IF InputMessages # <<>> /\ \A i \in DOMAIN InputMessages : ValidMessage(InputMessages[i])
       THEN /\ IsOk(fx.out)
            /\ Get(fx.out, "value") =
                 Arr([i \in DOMAIN InputMessages |-> ParsedMessage(InputMessages[i])])
            /\ \A i \in DOMAIN InputMessages : WellFormedMessage(Get(fx.out, "value").a[i])
       ELSE /\ ~IsOk(fx.out)
            /\ Get(Get(fx.out, "error"), "type") = Str("InvalidChatMessages")
            /\ ~HasKey(fx.out, "value")
  /\ fx.pc = "latest" =>
       /\ fx.latest = ParsedMessage(InputMessages[Len(InputMessages)])
       /\ WellFormedMessage(fx.latest)
\* Two messages were parsed, the first with string content, and the second
\* is the latest.
C26_Witness ==
  /\ fx.pc = "latest"
  /\ fx.path = <<"messages">>
  /\ Get(fx.input, "messages") =
       Arr(<<Message("user", Str("Mario theme")),
             Message("assistant", Arr(<<TextItem("castle"), ImageItemStr(DataUrl)>>))>>)
  /\ Get(fx.out, "value").a[1] = Message("user", Arr(<<TextItem("Mario theme")>>))
  /\ fx.latest = Message("assistant", Arr(<<TextItem("castle"), ImageItemStr(DataUrl)>>))

(***************************************************************************)
(* The handler on two requests: what the pipeline calls of each are given. *)
(* The requests share no state, so the second is handled after the first.  *)
(***************************************************************************)
\* The valid bodies whose messages end with the message last.
BodiesEndingWith(last) ==
  { Obj([messages |-> Arr(Append(ms, last))]) : ms \in SeqsUpTo(ValidRawMessages, MaxMessages - 1) }
\* Variant of LatestOf: the first message is taken.
FirstOf(value) == value[1]

\* Handler line 25: messages.value[messages.value.length - 1].
LatestOf(value) == value[Len(value)]
\* One request as it arrives.
PairRequest(b) ==
  [pc |-> "received", body |-> b, latest |-> Undef, latestContent |-> Undef,
   pre |-> [st |-> "idle", val |-> Undef], calls |-> <<>>]

PairInit ==
  /\ HandlerUnused
  /\ chat = Unused
  /\ gcss = Unused
  /\ \E last \in ValidRawMessages :
       fx \in { [fn |-> "handler", req |-> <<PairRequest(b1), PairRequest(b2)>>]
                : b1 \in BodiesEndingWith(last), b2 \in BodiesEndingWith(last) }
  /\ cl = Unused

\* Request i is the one being handled.
PairTurn(i) ==
  /\ fx.fn = "handler"
  /\ \A j \in 1..(i - 1) : fx.req[j].pc \in {"fanned_out", "rejected"}

\* Handler lines 14-27 for request i: the messages are parsed and
\* preprocessPipeline is called with the latest.
PairReceive(i) ==
  /\ PairTurn(i)
  /\ fx.req[i].pc = "received"
  /\ LET value == Get(parseChatMessages(fx.req[i].body, <<"messages">>), "value").a
         last == LatestOf(value)
     IN fx' = [fx EXCEPT !.req[i].pc = "await_preprocess",
                         !.req[i].latest = last,
                         !.req[i].latestContent = TextOf(Get(last, "content")),
                         !.req[i].pre = preprocessCall(last)]
  /\ UNCHANGED <<handlerVars, chat, gcss, cl>>

\* preprocess.ts lines 13-19 for request i: extractKeywords completes.
PairPreprocessResume(i) ==
  /\ PairTurn(i)
  /\ fx.req[i].pre.st = "pending"
  /\ \E net \in LlmOutcomes("keywords") :
       LET keywordsResult == parseChatResponse(sendChatRequest(Str("sk-test"), net))
       IN fx' = [fx EXCEPT !.req[i].pre =
                   IF ~IsOk(keywordsResult)
                   THEN RejectedWith(Get(keywordsResult, "error"))
                   ELSE Fulfilled(Obj(Spread(fx.req[i].latest.o,
                          [content |-> Arr(<<Obj([type |-> Str("text"),
                             text |-> ToStringOrEmpty(OptGet(Get(keywordsResult, "value"),
                                                             "keywords"))])>>)])))]
  /\ UNCHANGED <<handlerVars, chat, gcss, cl>>

\* Handler lines 27-33 for request i: preprocessPipeline has settled; the
\* four pipelines are called.
PairFanOut(i) ==
  /\ PairTurn(i)
  /\ fx.req[i].pc = "await_preprocess"
  /\ fx.req[i].pre.st \in Settled
  /\ IF fx.req[i].pre.st = "rejected"
     THEN fx' = [fx EXCEPT !.req[i].pc = "rejected"]
     ELSE LET keywords == OptGet(fx.req[i].pre.val, "content")
              joined == fx.req[i].latestContent
          IN fx' = [fx EXCEPT !.req[i].pc = "fanned_out",
                              !.req[i].calls =
                                 <<[pipeline |-> "color", arg |-> keywords],
                                   [pipeline |-> "font", arg |-> joined],
                                   [pipeline |-> "layout", arg |-> joined],
                                   [pipeline |-> "text", arg |-> joined]>>]
  /\ UNCHANGED <<handlerVars, chat, gcss, cl>>

PairNext ==
  \E i \in 1..2 :
    \/ PairReceive(i)
    \/ PairPreprocessResume(i)
    \/ PairFanOut(i)

PairSpec == PairInit /\ [][PairNext]_vars

\* The last message of the body of request i, as it was sent.
LastSent(i) ==
  LET ms == Get(fx.req[i].body, "messages").a IN ms[Len(ms)]
\* The earlier messages of the body of request i.
EarlierSent(i) ==
  LET ms == Get(fx.req[i].body, "messages").a IN SubSeq(ms, 1, Len(ms) - 1)
\* Both requests have made their pipeline calls.
BothFannedOut == \A i \in 1..2 : fx.req[i].pc = "fanned_out"

\* C27: two valid requests whose messages end with the same message start
\* the same pipeline calls with the same arguments, whatever their earlier
\* messages.
C27_InputsFromLastMessage ==
  BothFannedOut /\ LastSent(1) = LastSent(2) =>
    /\ fx.req[1].calls = fx.req[2].calls
    /\ [j \in 1..4 |-> fx.req[1].calls[j].pipeline] = CallOrder
\* Two requests with different earlier messages and the same last message
\* have made their calls.
C27_Witness ==
  /\ BothFannedOut
  /\ EarlierSent(1) = <<>>
  /\ EarlierSent(2) = <<Message("assistant", Arr(<<TextItem("castle"), ImageItemStr(DataUrl)>>))>>
  /\ LastSent(1) = Message("user", Arr(<<TextItem("Mario theme"), ImageItemObj(DataUrl)>>))
  /\ LastSent(2) = LastSent(1)
  /\ fx.req[1].calls[1].arg = Arr(<<TextItem("mario")>>)
  /\ fx.req[1].calls[2].arg = Str("Mario theme ")

(***************************************************************************)
(* The handler's outcome and the order in which the pipelines complete     *)
(* (checked in the handler's specification, where the pipelines go on      *)
(* after the handler has ended).                                           *)
(***************************************************************************)
\* The four pipelines were called and all have settled.
AllPipelinesSettled == \A p \in DOMAIN pst : pst[p] \in Settled
\* The pipelines that rejected, as positions in the array given to Promise.all.
RejectedCalls == {i \in DOMAIN CallOrder : pst[CallOrder[i]] = "rejected"}
\* An outcome of the handler that depends on the outcomes of the pipelines
\* only: the response made of the four results, or the failure of the first
\* pipeline of the array that failed.
OutcomeOfPipelines ==
  IF RejectedCalls = {}
  THEN BuildResponse(pres["color"], pres["font"], pres["layout"], pres["text"])
  ELSE Rejected(pres[CallOrder[CHOOSE i \in RejectedCalls : \A j \in RejectedCalls : i <= j]])

\* C28: for fixed outcomes of the four pipelines the outcome of the handler,
\* its response or its failure, is the same whatever the order in which the
\* pipelines complete.
C28_OutcomeIndependentOfOrder ==
  hpc = "done" /\ AllPipelinesSettled => response = OutcomeOfPipelines

\* A submission is being handled: its call of processMessage has not ended,
\* or the reply it gave to appendMessage is not in the container yet.
SubmissionBeingHandled ==
  \/ \E i \in DOMAIN cl.calls : cl.calls[i].pc # "done"
  \/ \E j \in DOMAIN cl.hideTimers : cl.hideTimers[j].then = "append"

\* C29: the send button is disabled from the submission of a message until
\* that submission has been fully handled.
C29_DisabledWhileHandled == SubmissionBeingHandled => cl.disabled

\* The calls of processMessage whose /api/chat request has no response yet,
\* or whose response is being read.
OutstandingCalls == {i \in DOMAIN cl.calls : cl.calls[i].pc \in {"fetch", "json"}}

====
